---- MODULE Spec2Model ----
(***************************************************************************)
(* qwen-bot: the job orchestration pipeline of bot.py.                     *)
(*                                                                         *)
(* Every trigger (an incoming chat message or a slash command) runs as one *)
(* request r.  A request is the coroutine of its handler; pc[r] is the     *)
(* await it is suspended at.  The inference backend is a black box: each   *)
(* HTTP response is an input chosen by the environment.  Time is the event *)
(* loop's clock `now`, advanced by Tick; a coroutine sleeping in           *)
(* asyncio.sleep(2) resumes once now has reached wake[r].                  *)
(***************************************************************************)
EXTENDS Integers, Sequences, FiniteSets, TLC

\* ------------------------------------------------------------------ bounds
\* Requests of the orchestrator specification (one handler coroutine each).
Reqs == {1}
\* The clock stops at MaxTime unless a poller with an armed timeout sleeps.
MaxTime == 5
\* JOB_TIMEOUT is drawn from 1..MaxTimeout.
MaxTimeout == 2
\* A message carries at most MaxAttach image attachments.
MaxAttach == 2
\* resize_image_if_needed is called with every side in 1..MaxSide and every
\* limit in 1..MaxLimit, and with the sample sides and limits.
MaxSide == 8
MaxLimit == 3
\* A behaviour makes at most MaxSets calls of set_user_language.
MaxSets == 2

\* ------------------------------------------------------- program constants
\* processing_start_time = None (bot.py:86)
NoTime == -1
\* await asyncio.sleep(2) (bot.py:123)
POLL_INTERVAL == 2
\* MAX_IMAGE_DIMENSION default (bot.py:41)
MAX_IMAGE_DIMENSION == 1024

\* ------------------------------------------------------------ input domains
Guilds == {"g1", "g2"}
\* None: message.guild of a direct message, an argument left out
None == "None"
Channels == {"c1", "c2"}
Users == {"u1", "u2"}

\* An attachment: its bytes, its filename, its declared media type.  Bytes
\* are what the preprocessor reads of them: whether they decode, the size
\* of the image, and whether they are the output of a re-encoding.
Attachments ==
    { [image |-> [decodable |-> TRUE, width |-> 1024, height |-> 768,
                  reencoded |-> FALSE],
       filename |-> "a.png", content_type |-> "image/png"],
      [image |-> [decodable |-> TRUE, width |-> 2048, height |-> 1024,
                  reencoded |-> FALSE],
       filename |-> "b.jpg", content_type |-> "image/jpeg"],
      [image |-> [decodable |-> FALSE, width |-> 0, height |-> 0,
                  reencoded |-> FALSE],
       filename |-> "c.png", content_type |-> "image/png"],
      [image |-> [decodable |-> FALSE, width |-> 0, height |-> 0,
                  reencoded |-> FALSE],
       filename |-> "n.txt", content_type |-> "text/plain"] }

\* a.content_type and a.content_type.startswith("image/") (bot.py:213, 225, 564)
IsImageType(a) == a.content_type \in {"image/png", "image/jpeg"}

ImageAttachments == { a \in Attachments : IsImageType(a) }

SeqsUpTo(S, n) == UNION { [1..k -> S] : k \in 0..n }

\* message.content, by what on_message reads of it.
Contents == {"empty", "text", "draw", "mention_only", "mention_text"}

\* What message.channel.fetch_message(reference) gives for a reply.
References == {"none", "bot_image", "bot_noimage", "other_author", "not_found", "error"}

MessageHandlers == {"handle_reply_edit", "handle_edit_message", "handle_generate_message"}
JobCommands == {"generate", "edit"}
InfoCommands == {"status", "queue", "system"}
EditHandlers == {"handle_reply_edit", "handle_edit_message", "edit"}
GenerateHandlers == {"handle_generate_message", "generate"}
Handlers == MessageHandlers \cup JobCommands \cup InfoCommands

\* ------------------------------------------------------------------- state
VARIABLES
    ALLOWED_GUILDS,         \* configuration (bot.py:27)
    ALLOWED_CHANNELS,       \* configuration (bot.py:28)
    ALLOWED_DMS,            \* configuration (bot.py:31)
    JOB_TIMEOUT,            \* configuration (bot.py:34)
    now,                    \* asyncio.get_event_loop().time()
    pc,                     \* pc[r]: where request r's coroutine is suspended
    handler,                \* handler[r]: the handler the trigger started
    gate,                   \* gate[r]: what is_allowed answered for the trigger
    attachments,            \* attachments[r]: the attachments the handler was given
    form,                   \* form[r]: the 'images' fields of the multipart body
    timeout,                \* timeout[r]: poll_job_status's timeout
    processing_start_time,  \* poll_job_status's local
    poll_count,             \* poll_job_status's local
    wake,                   \* wake[r]: when the pending asyncio.sleep(2) ends
    observed,               \* observed[r]: the status responses seen so far
    data,                   \* data[r]: the last status record fetched
    submit_status,          \* submit_status[r]: resp.status of the submit POST
    fetched_url,            \* fetched_url[r]: the url download_image requested
    download_status,        \* download_status[r]: resp.status of that request
    log,                    \* log[r]: the request's side effects, in order
    text,                   \* text[r]: the content of the last message sent
    outcome,                \* outcome[r]: how the request ended
    gate_args,              \* the arguments of a call of is_allowed on its own
    gate_result,            \* what that call returned
    resize_args,            \* the arguments of a call of resize_image_if_needed
    resize_result,          \* what that call returned
    DEFAULT_LANGUAGE,       \* configuration (translations.py:17-18)
    user_languages,         \* _user_languages (translations.py:21)
    sets,                   \* the calls of set_user_language made so far
    lang_args,              \* the last call of get_user_language or of t
    lang_result,            \* what that call returned
    elapsed,                \* elapsed[r]: the processing time last computed
    message                 \* the message on_message was last called with

config == <<ALLOWED_GUILDS, ALLOWED_CHANNELS, ALLOWED_DMS, JOB_TIMEOUT,
            DEFAULT_LANGUAGE>>
pollVars == <<timeout, processing_start_time, poll_count, wake, observed, data,
              elapsed>>
outVars == <<fetched_url, download_status>>
gateCall == <<gate_args, gate_result>>
resizeCall == <<resize_args, resize_result>>
langVars == <<user_languages, sets, lang_args, lang_result>>
vars == <<config, now, pc, handler, gate, attachments, form, pollVars,
          submit_status, fetched_url, download_status, log, text, outcome,
          gateCall, resizeCall, langVars, message>>

\* ---------------------------------------------------------------- helpers
Max(a, b) == IF a >= b THEN a ELSE b

Count(s, e) == Cardinality({ i \in DOMAIN s : s[i] = e })

\* The position of the first e in s, 0 when there is none.
FirstIndex(s, e) ==
    IF \E i \in DOMAIN s : s[i] = e
    THEN CHOOSE i \in DOMAIN s : s[i] = e /\ \A j \in 1..(i - 1) : s[j] # e
    ELSE 0

\* Requests to the backend, and messages to the caller, as log entries.
BackendCalls == {"submit", "status", "output", "info"}
UserMessages == {"ack", "deny", "notice", "error", "image", "embed"}

\* No message has been received.
NoMessage == [author_is_bot |-> FALSE, origin |-> <<>>, content |-> "none",
              reference |-> "none", mentioned |-> FALSE, attachments |-> <<>>,
              ref_attachments |-> <<>>]

NoData == [status |-> "none", output_image_url |-> "none", error |-> "none"]

\* The statuses the backend reports (spec section 3), and the urls of outputs.
OutputUrls == {"/img/1.png", "/img/2.png"}

\* GET /status/{job_id}: the HTTP status and, on 200, the JSON record.
StatusResponses ==
    { [http |-> 200, data |-> [status |-> s, output_image_url |-> "none", error |-> "none"]] :
        s \in {"queued", "processing"} }
    \cup { [http |-> 200, data |-> [status |-> "completed", output_image_url |-> u, error |-> "none"]] :
        u \in OutputUrls }
    \cup { [http |-> 200, data |-> [status |-> "failed", output_image_url |-> "none", error |-> e]] :
        e \in {"absent", "null", "", "CUDA out of memory"} }
    \cup { [http |-> h, data |-> NoData] : h \in {404, 500} }

\* POST /generate, POST /edit: the HTTP status and, on 400, the detail field.
SubmitResponses ==
    { [http |-> h, detail |-> "none"] : h \in {200, 503, 500} }
    \cup { [http |-> 400, detail |-> d] : d \in {"absent", "prompt too long"} }

\* f"{resp.status}"
HttpText(code) ==
    CASE code = 200 -> "200" [] code = 400 -> "400" [] code = 404 -> "404"
      [] code = 500 -> "500" [] code = 503 -> "503"

\* What a status response adds to observed[r].
Seen(resp) == IF resp.http = 200 THEN resp.data.status ELSE "http_error"

\* --------------------------------------------------------------- is_allowed
\* The empty list read as "allow all" for direct messages too.
is_allowed_EmptyDMsAllowAll(guild_id, channel_id, user_id) ==
    IF guild_id = None
    THEN ALLOWED_DMS = {} \/ (user_id # None /\ user_id \in ALLOWED_DMS)
    ELSE /\ (ALLOWED_GUILDS = {} \/ guild_id \in ALLOWED_GUILDS)
         /\ (ALLOWED_CHANNELS = {} \/ channel_id \in ALLOWED_CHANNELS)

\* The channel restriction is not checked.
is_allowed_NoChannelCheck(guild_id, channel_id, user_id) ==
    IF guild_id = None
    THEN user_id # None /\ user_id \in ALLOWED_DMS
    ELSE ALLOWED_GUILDS = {} \/ guild_id \in ALLOWED_GUILDS

\* bot.py:54-73
is_allowed(guild_id, channel_id, user_id) ==
    IF guild_id = None
    THEN user_id # None /\ user_id \in ALLOWED_DMS
    ELSE IF ALLOWED_GUILDS # {} /\ guild_id \notin ALLOWED_GUILDS
    THEN FALSE
    ELSE IF ALLOWED_CHANNELS # {} /\ channel_id \notin ALLOWED_CHANNELS
    THEN FALSE
    ELSE TRUE


\* ------------------------------------------------------------------- Init
GateConfigs ==
    { [guilds |-> {}, channels |-> {}, dms |-> {}, language |-> "en"],
      [guilds |-> {"g1"}, channels |-> {"c1"}, dms |-> {"u1"}, language |-> "zh"] }

\* Every request idle, no call of is_allowed made yet.
Idle ==
    /\ now = 0
    /\ pc = [r \in Reqs |-> "idle"]
    /\ handler = [r \in Reqs |-> "none"]
    /\ gate = [r \in Reqs |-> "none"]
    /\ attachments = [r \in Reqs |-> <<>>]
    /\ form = [r \in Reqs |-> <<>>]
    /\ timeout = [r \in Reqs |-> 0]
    /\ processing_start_time = [r \in Reqs |-> NoTime]
    /\ poll_count = [r \in Reqs |-> 0]
    /\ wake = [r \in Reqs |-> 0]
    /\ observed = [r \in Reqs |-> {}]
    /\ data = [r \in Reqs |-> NoData]
    /\ elapsed = [r \in Reqs |-> NoTime]
    /\ fetched_url = [r \in Reqs |-> "none"]
    /\ log = [r \in Reqs |-> <<>>]
    /\ text = [r \in Reqs |-> <<"", "">>]
    /\ outcome = [r \in Reqs |-> "none"]
    /\ submit_status = [r \in Reqs |-> 0]
    /\ download_status = [r \in Reqs |-> 0]
    /\ gate_args = <<>>
    /\ gate_result = FALSE
    /\ resize_args = <<>>
    /\ resize_result = <<>>
    /\ user_languages = [u \in {} |-> ""]
    /\ sets = <<>>
    /\ lang_args = <<>>
    /\ lang_result = <<>>
    /\ message = NoMessage

Init ==
    /\ \E cfg \in GateConfigs :
        /\ ALLOWED_GUILDS = cfg.guilds
        /\ ALLOWED_CHANNELS = cfg.channels
        /\ ALLOWED_DMS = cfg.dms
        /\ DEFAULT_LANGUAGE = cfg.language
    /\ JOB_TIMEOUT \in 1..MaxTimeout
    /\ Idle

\* ------------------------------------------------------- handler fragments
\* The request ends: the entries are logged, the last message is t.
Stop(r, entries, t, o) ==
    /\ log' = [log EXCEPT ![r] = @ \o entries]
    /\ text' = [text EXCEPT ![r] = t]
    /\ outcome' = [outcome EXCEPT ![r] = o]
    /\ pc' = [pc EXCEPT ![r] = "done"]

\* except Exception: pass -- the error is dropped.
Raise_Swallowed(r, entries, e, o) ==
    Stop(r, entries \o <<"session_close">>, text[r], o)

\* The error is reported with the session still open.
Raise_SessionLeftOpen(r, entries, e, o) ==
    Stop(r, entries \o <<"error">>,
         <<IF handler[r] \in MessageHandlers
           THEN "Sorry, something went wrong: " ELSE "Error: ", e>>, o)

\* The handler reports that something failed, without str(e).
Raise_WithoutText(r, entries, e, o) ==
    Stop(r, entries \o <<"session_close", "error">>,
         <<IF handler[r] \in MessageHandlers
           THEN "Sorry, something went wrong." ELSE "Error.", "">>, o)

\* except Exception as e: the session's `async with` is left, then the handler
\* reports str(e) (bot.py:294-299, 365-370, 436-441, 526-528, 627-629).
Raise(r, entries, e, o) ==
    Stop(r, entries \o <<"session_close", "error">>,
         <<IF handler[r] \in MessageHandlers
           THEN "Sorry, something went wrong: " ELSE "Error: ", e>>, o)

\* The acknowledgment is left for after the job is submitted.
Enter_AckAfterSubmit(r, h, atts, ack) ==
    /\ handler' = [handler EXCEPT ![r] = h]
    /\ attachments' = [attachments EXCEPT ![r] = atts]
    /\ log' = [log EXCEPT ![r] = @ \o <<"session_open">>]
    /\ text' = text
    /\ outcome' = outcome
    /\ pc' = [pc EXCEPT ![r] =
                IF h \in EditHandlers THEN "preprocess"
                ELSE IF h \in InfoCommands THEN "info" ELSE "submit"]

\* The acknowledgment and the opening of the session (bot.py:251-254,
\* 305-310, 376-381, 476-479, 561-570).
Enter(r, h, atts, ack) ==
    /\ handler' = [handler EXCEPT ![r] = h]
    /\ attachments' = [attachments EXCEPT ![r] = atts]
    /\ log' = [log EXCEPT ![r] = @ \o <<"ack", "session_open">>]
    /\ text' = [text EXCEPT ![r] = ack]
    /\ outcome' = outcome
    /\ pc' = [pc EXCEPT ![r] =
                IF h \in EditHandlers THEN "preprocess"
                ELSE IF h \in InfoCommands THEN "info" ELSE "submit"]

\* ack_msg of the message handlers (bot.py:251, 305-307, 376-378)
AckMessage(atts) ==
    IF Len(atts) > 1
    THEN <<"Got it, I have enqueued your request with {img_count} image(s).", "">>
    ELSE <<"Got it, I have enqueued your request.", "">>

\* ---------------------------------------------------------------- triggers
Origins == (Guilds \cup {None}) \X Channels \X Users

\* 'draw <prompt>' is looked for first.
Dispatch_DrawFirst(content, ref, mentioned, atts, ref_atts) ==
    LET image_attachments == SelectSeq(atts, IsImageType)
        ref_image_attachments == SelectSeq(ref_atts, IsImageType)
    IN  IF content = "draw"
        THEN [handler |-> "handle_generate_message", attachments |-> <<>>]
        ELSE IF /\ ref # "none" /\ content # "empty"
                /\ ref = "bot_image" /\ ref_image_attachments # <<>>
        THEN [handler |-> "handle_reply_edit", attachments |-> ref_image_attachments]
        ELSE IF /\ image_attachments # <<>> /\ content # "empty" /\ mentioned
                /\ content # "mention_only"
        THEN [handler |-> "handle_edit_message", attachments |-> image_attachments]
        ELSE [handler |-> "process_commands", attachments |-> <<>>]

\* bot.py:205-245: the handler on_message awaits, by precedence.
Dispatch(content, ref, mentioned, atts, ref_atts) ==
    LET image_attachments == SelectSeq(atts, IsImageType)
        ref_image_attachments == SelectSeq(ref_atts, IsImageType)
    IN  IF /\ ref # "none" /\ content # "empty"
           /\ ref = "bot_image" /\ ref_image_attachments # <<>>
        THEN [handler |-> "handle_reply_edit", attachments |-> ref_image_attachments]
        ELSE IF /\ image_attachments # <<>> /\ content # "empty" /\ mentioned
                /\ content # "mention_only"
        THEN [handler |-> "handle_edit_message", attachments |-> image_attachments]
        ELSE IF content = "draw"
        THEN [handler |-> "handle_generate_message", attachments |-> <<>>]
        ELSE [handler |-> "process_commands", attachments |-> <<>>]

\* bot.py:190-245 called with msg, with the first statements of the handler
\* it awaits.
on_message_of(r, msg) ==
    /\ pc[r] = "idle"
    /\ IF msg.author_is_bot
       THEN /\ gate' = gate
            /\ handler' = handler
            /\ attachments' = attachments
            /\ Stop(r, <<>>, text[r], "ignored_own_message")
       ELSE IF ~is_allowed(msg.origin[1], msg.origin[2], msg.origin[3])
       THEN /\ gate' = [gate EXCEPT ![r] = "denied"]
            /\ handler' = [handler EXCEPT ![r] = "on_message"]
            /\ attachments' = attachments
            /\ Stop(r, <<>>, text[r], "ignored_not_allowed")
       ELSE /\ gate' = [gate EXCEPT ![r] = "allowed"]
            /\ LET d == Dispatch(msg.content, msg.reference, msg.mentioned,
                                 msg.attachments, msg.ref_attachments)
               IN  IF d.handler = "process_commands"
                   THEN /\ handler' = [handler EXCEPT ![r] = d.handler]
                        /\ attachments' = attachments
                        /\ Stop(r, <<>>, text[r], "no_request")
                   ELSE Enter(r, d.handler, d.attachments, AckMessage(d.attachments))
    /\ UNCHANGED <<config, now, form, pollVars, submit_status, outVars, gateCall,
                   resizeCall, langVars>>

\* The event on_message of a request.
\* The event on_message(message), for some message the bot receives: who
\* wrote it and where, its content, the message it replies to, whether it
\* mentions the bot, its attachments and those of the message replied to.
\* The bot's own messages are among them.  The message is kept when keep.
on_message_event(r, keep) ==
    /\ pc[r] = "idle"
    /\ \E author_is_bot \in BOOLEAN, o \in Origins :
       \E content \in Contents, ref \in References :
       \E mentioned \in { m \in BOOLEAN :
                           content \in {"mention_only", "mention_text"} => m } :
       \E atts \in SeqsUpTo(Attachments, MaxAttach) :
       \E ref_atts \in IF ref = "bot_image"
                        THEN SeqsUpTo(ImageAttachments, MaxAttach) \ {<<>>}
                        ELSE {<<>>} :
           LET msg == [author_is_bot |-> author_is_bot, origin |-> o,
                       content |-> content, reference |-> ref,
                       mentioned |-> mentioned, attachments |-> atts,
                       ref_attachments |-> ref_atts]
           IN  /\ on_message_of(r, msg)
               /\ message' = IF keep THEN msg ELSE message

on_message(r) == on_message_event(r, FALSE)

\* on_message of a behaviour that keeps the message it was called with.
receive == \E r \in Reqs : on_message_event(r, TRUE)

\* The configuration with allow-lists, under which some origins are
\* allowed and some denied.
MsgInit == Init /\ ALLOWED_GUILDS # {}

MsgSpec == MsgInit /\ [][receive]_vars

\* The `return` after the refusal is missing: the command goes on.
Denied_FallsThrough(r, h) ==
    /\ gate' = [gate EXCEPT ![r] = "denied"]
    /\ handler' = [handler EXCEPT ![r] = h]
    /\ attachments' = attachments
    /\ log' = [log EXCEPT ![r] = @ \o <<"deny", "ack", "session_open">>]
    /\ text' = [text EXCEPT ![r] = <<"(thinking)", "">>]
    /\ outcome' = outcome
    /\ pc' = [pc EXCEPT ![r] = IF h \in InfoCommands THEN "info" ELSE "submit"]

\* The refusal is not sent: the command returns silently.
Denied_Silent(r, h) ==
    /\ gate' = [gate EXCEPT ![r] = "denied"]
    /\ handler' = [handler EXCEPT ![r] = h]
    /\ attachments' = attachments
    /\ Stop(r, <<>>, text[r], "AccessDenied")

\* A slash command refused by the gate (bot.py:470-473, 555-558, 641-644,
\* 692-695, 736-739).
Denied(r, h) ==
    /\ gate' = [gate EXCEPT ![r] = "denied"]
    /\ handler' = [handler EXCEPT ![r] = h]
    /\ attachments' = attachments
    /\ Stop(r, <<"deny">>, <<"This command is not available here.", "">>,
            "AccessDenied")

\* /generate up to its first backend request (bot.py:454-479).
generate(r) ==
    /\ pc[r] = "idle"
    /\ \E o \in Origins :
        IF ~is_allowed(o[1], o[2], o[3])
        THEN Denied(r, "generate")
        ELSE /\ gate' = [gate EXCEPT ![r] = "allowed"]
             /\ Enter(r, "generate", <<>>, <<"(thinking)", "">>)
    /\ UNCHANGED <<config, now, form, pollVars, submit_status, outVars, gateCall, resizeCall, langVars, message>>

\* /edit up to the download of its attachment (bot.py:540-570).
edit(r) ==
    /\ pc[r] = "idle"
    /\ \E o \in Origins :
        IF ~is_allowed(o[1], o[2], o[3])
        THEN Denied(r, "edit")
        ELSE /\ gate' = [gate EXCEPT ![r] = "allowed"]
             /\ \E image \in Attachments :
                IF ~IsImageType(image)
                THEN /\ handler' = [handler EXCEPT ![r] = "edit"]
                     /\ attachments' = attachments
                     /\ Stop(r, <<"ack", "error">>,
                             <<"Please attach a valid image file.", "">>,
                             "InvalidAttachment")
                ELSE Enter(r, "edit", <<image>>, <<"(thinking)", "">>)
    /\ UNCHANGED <<config, now, form, pollVars, submit_status, outVars, gateCall, resizeCall, langVars, message>>

\* /status, /queue, /system up to their backend request (bot.py:634-650,
\* 685-701, 729-745).
InfoCommand(r, h) ==
    /\ pc[r] = "idle"
    /\ \E o \in Origins :
        IF ~is_allowed(o[1], o[2], o[3])
        THEN Denied(r, h)
        ELSE /\ gate' = [gate EXCEPT ![r] = "allowed"]
             /\ Enter(r, h, <<>>, <<"(thinking)", "">>)
    /\ UNCHANGED <<config, now, form, pollVars, submit_status, outVars, gateCall, resizeCall, langVars, message>>

status(r) == InfoCommand(r, "status")
queue(r) == InfoCommand(r, "queue")
system(r) == InfoCommand(r, "system")

\* ------------------------------------------------------ image preprocessing
\* Every byte string is taken for an image.
Decodes_Always(image_data) == TRUE

\* Image.open(BytesIO(image_data)) succeeds (bot.py:144).
Decodes(image_data) == image_data.decodable

\* ---------------------------------------------------------- Python floats
\* scale, width * scale and height * scale are Python floats: IEEE 754
\* binary64, every operation rounded to nearest, ties to even, to a
\* significand of Precision binary digits.  A positive float is the record
\* [limbs, exp]: limbs are the digits in base Base (most significant first)
\* of an integer N, and the float is N * 2^exp.  The four low limbs hold
\* Precision - 1 = 4 * 13 binary digits, so that limbs[1] is N \div 2^52;
\* every intermediate value stays below 2^31.
Precision == 53
Base == 8192

RECURSIVE Pow2(_)
Pow2(n) == IF n = 0 THEN 1 ELSE 2 * Pow2(n - 1)

RECURSIVE BitLength(_)
BitLength(n) == IF n = 0 THEN 0 ELSE 1 + BitLength(n \div 2)

\* The number of doublings that bring a up to b.
RECURSIVE Doublings(_, _)
Doublings(a, b) == IF a >= b THEN 0 ELSE 1 + Doublings(2 * a, b)

\* Round to nearest, ties to even: guard is the first digit dropped, sticky
\* says whether any digit after it is set, odd whether the last digit kept
\* is set.
RoundsUp(guard, sticky, odd) == guard = 1 /\ (sticky \/ odd)

\* a / b of two ints with 0 < a <= b < Base.  With k doublings a * 2^k / b
\* is in [1, 2): its 52 binary digits after the point are d1..d4, obtained by
\* long division, and the quotient is rounded on the digit that follows.
TrueDiv(a, b) ==
    LET k == Doublings(a, b)
        r0 == a * Pow2(k) - b
        d1 == (r0 * Base) \div b
        r1 == (r0 * Base) % b
        d2 == (r1 * Base) \div b
        r2 == (r1 * Base) % b
        d3 == (r2 * Base) \div b
        r3 == (r2 * Base) % b
        d4 == (r3 * Base) \div b
        r4 == (r3 * Base) % b
        guard == (2 * r4) \div b
        sticky == (2 * r4) % b # 0
        e4 == d4 + (IF RoundsUp(guard, sticky, d4 % 2 = 1) THEN 1 ELSE 0)
        e3 == d3 + e4 \div Base
        e2 == d2 + e3 \div Base
        e1 == d1 + e2 \div Base
        e0 == 1 + e1 \div Base
    IN  [limbs |-> <<e0, e1 % Base, e2 % Base, e3 % Base, e4 % Base>>,
         exp |-> 0 - (k + Precision - 1)]

\* n * f of an int 0 < n < Base and a float f: the exact product p, of
\* which the `dropped` low binary digits are rounded away to leave
\* Precision digits.
FloatMul(n, f) ==
    LET p5 == f.limbs[5] * n
        p4 == f.limbs[4] * n + p5 \div Base
        p3 == f.limbs[3] * n + p4 \div Base
        p2 == f.limbs[2] * n + p3 \div Base
        p1 == f.limbs[1] * n + p2 \div Base
        dropped == BitLength(p1) - 1
        unit == Pow2(dropped)
        low == (p4 % Base) * Base + (p5 % Base)
        guard == IF dropped = 0 THEN 0 ELSE (low \div (unit \div 2)) % 2
        sticky == dropped > 0 /\ low % (unit \div 2) # 0
        rounded == (low \div unit) * unit
                   + (IF RoundsUp(guard, sticky, (low \div unit) % 2 = 1)
                      THEN unit ELSE 0)
        m3 == (p3 % Base) + rounded \div (Base * Base)
        m2 == (p2 % Base) + m3 \div Base
        m1 == p1 + m2 \div Base
    IN  [limbs |-> <<m1, m2 % Base, m3 % Base,
                     (rounded \div Base) % Base, rounded % Base>>,
         exp |-> f.exp]

\* int(f): the digits before the binary point.
IntOf(f) == f.limbs[1] \div Pow2(0 - f.exp - (Precision - 1))

\* ------------------------------------------------- resize_image_if_needed
\* The limit is compared with `<`.
resize_image_if_needed_StrictLimit(image_data, max_dimension) ==
    LET width == image_data.width
        height == image_data.height
        longest_side == Max(width, height)
    IN  IF longest_side < max_dimension
        THEN image_data
        ELSE LET scale == TrueDiv(max_dimension, longest_side)
             IN  [decodable |-> TRUE,
                  width |-> IntOf(FloatMul(width, scale)),
                  height |-> IntOf(FloatMul(height, scale)),
                  reencoded |-> TRUE]

\* bot.py:139-174, for bytes that decode: the bytes returned.
resize_image_if_needed(image_data, max_dimension) ==
    LET width == image_data.width
        height == image_data.height
        longest_side == Max(width, height)
    IN  IF longest_side <= max_dimension
        THEN image_data
        ELSE LET scale == TrueDiv(max_dimension, longest_side)
                 new_width == IntOf(FloatMul(width, scale))
                 new_height == IntOf(FloatMul(height, scale))
             IN  [decodable |-> TRUE, width |-> new_width, height |-> new_height,
                  reencoded |-> TRUE]

\* Every image is sent under the name of the first one.
ImagesField_FirstFilename(attachment, image_data) ==
    [data |-> image_data, filename |-> "a.png",
     content_type |-> attachment.content_type]

\* form.add_field("images", image_data, filename=attachment.filename,
\* content_type=attachment.content_type) (bot.py:323, 394, 581)
ImagesField(attachment, image_data) ==
    [data |-> image_data, filename |-> attachment.filename,
     content_type |-> attachment.content_type]

\* One iteration of the attachment loop (bot.py:314-323, 385-394, 572-581),
\* for the attachment after those already in the form: read, resize, add
\* the 'images' field.
preprocess(r) ==
    /\ pc[r] = "preprocess"
    /\ LET i == Len(form[r]) + 1
           attachment == attachments[r][i]
       IN  IF ~Decodes(attachment.image)
           THEN /\ Raise(r, <<"preprocess">>, "cannot identify image file",
                         "DecodeError")
                /\ form' = form
           ELSE /\ form' = [form EXCEPT ![r] = Append(@,
                        ImagesField(attachment,
                                    resize_image_if_needed(attachment.image,
                                                           MAX_IMAGE_DIMENSION)))]
                /\ log' = [log EXCEPT ![r] = Append(@, "preprocess")]
                /\ pc' = [pc EXCEPT ![r] =
                            IF i = Len(attachments[r]) THEN "submit" ELSE "preprocess"]
                /\ UNCHANGED <<text, outcome>>
    /\ UNCHANGED <<config, now, handler, gate, attachments, pollVars, submit_status,
                   outVars, gateCall, resizeCall, langVars, message>>

\* ------------------------------------------------------------------ submit
\* The timeout argument the handler's call of poll_job_status ends up with
\* (bot.py:280, 351, 422, 508, 612 pass none; bot.py:82-83).
PollTimeout(h) == JOB_TIMEOUT

\* The message for a 503 (bot.py:269, 334, 405, 495, 593).
UnavailableMessage(h) ==
    IF h = "handle_generate_message"
    THEN <<"Sorry, the generation pipeline is not available right now.", "">>
    ELSE IF h \in {"handle_edit_message", "handle_reply_edit"}
    THEN <<"Sorry, the edit pipeline is not available right now.", "">>
    ELSE IF h = "generate"
    THEN <<"Generation pipeline is not available.", "">>
    ELSE <<"Edit pipeline is not available.", "">>

\* error_data.get('detail', 'Unknown error') (bot.py:338, 409, 597)
Detail(resp) == IF resp.detail = "absent" THEN "Unknown error" ELSE resp.detail

\* Only the 503 is checked: every other response is read as a job.
SubmitOutcome_Only503(resp, h) ==
    IF resp.http = 503 THEN "PipelineUnavailable" ELSE "ok"

\* How the handler classifies the submit response (bot.py:267-275, 332-346,
\* 403-417, 493-501, 591-605).
SubmitOutcome(resp, h) ==
    IF resp.http = 503 THEN "PipelineUnavailable"
    ELSE IF resp.http = 400 /\ h \in EditHandlers THEN "InvalidRequest"
    ELSE IF resp.http # 200 THEN "SubmitFailed"
    ELSE "ok"

\* The message that reports a rejected submit.
SubmitMessage(resp, h) ==
    IF resp.http = 503 THEN UnavailableMessage(h)
    ELSE IF resp.http = 400 /\ h \in EditHandlers
    THEN <<"Invalid request: ", Detail(resp)>>
    ELSE <<"Failed to submit job: ", HttpText(resp.http)>>

\* str(e) of the aiohttp.ClientError that session.post raises when the
\* backend cannot be reached.
ConnectionError == "Cannot connect to host"

\* session.post and the handling of its response (bot.py:266-277, 331-348,
\* 402-419, 492-505, 590-609): the request fails in transit, or is answered;
\* on 200 poll_job_status is entered (bot.py:81-87).
submit(r) ==
    /\ pc[r] = "submit"
    /\ \/ /\ Raise(r, <<"submit">>, ConnectionError, "SubmitError")
          /\ UNCHANGED <<submit_status, pollVars>>
       \/ \E resp \in SubmitResponses :
        /\ submit_status' = [submit_status EXCEPT ![r] = resp.http]
        /\ IF SubmitOutcome(resp, handler[r]) # "ok"
           THEN /\ Stop(r, <<"submit", "error", "session_close">>,
                         SubmitMessage(resp, handler[r]),
                         SubmitOutcome(resp, handler[r]))
                /\ UNCHANGED pollVars
           ELSE /\ log' = [log EXCEPT ![r] = @ \o
                           (IF handler[r] \in JobCommands
                            THEN <<"submit", "notice">> ELSE <<"submit">>)]
                /\ text' = [text EXCEPT ![r] =
                           IF handler[r] = "generate"
                           THEN <<"Generating image... (Job ID: ", "job_id">>
                           ELSE IF handler[r] = "edit"
                           THEN <<"Editing image... (Job ID: ", "job_id">>
                           ELSE @]
                /\ pc' = [pc EXCEPT ![r] = "poll"]
                /\ timeout' = [timeout EXCEPT ![r] = PollTimeout(handler[r])]
                /\ processing_start_time' = [processing_start_time EXCEPT ![r] = NoTime]
                /\ poll_count' = [poll_count EXCEPT ![r] = 0]
                /\ wake' = [wake EXCEPT ![r] = now]
                /\ UNCHANGED <<outcome, observed, data, elapsed>>
    /\ UNCHANGED <<config, now, handler, gate, attachments, form, outVars, gateCall, resizeCall, langVars, message>>

\* -------------------------------------------------------------------- poll
\* error = data.get("error", "Job failed"); str(Exception(error)) (bot.py:108-110)
JobError(d) ==
    IF d.error = "absent" THEN "Job failed"
    ELSE IF d.error = "null" THEN "None"
    ELSE d.error

\* A poll that reads 'queued' forgets the recorded start.
StartAfter_ClearedOnQueued(r, observed_status) ==
    IF observed_status = "queued" THEN NoTime
    ELSE IF processing_start_time[r] = NoTime THEN now
    ELSE processing_start_time[r]

\* The start is recorded anew at every poll that is not 'queued'.
StartAfter_EveryPoll(r, observed_status) ==
    IF observed_status # "queued" THEN now ELSE processing_start_time[r]

\* The start of processing never recorded.
StartAfter_NeverRecorded(r, observed_status) == processing_start_time[r]

\* processing_start_time after the status has been examined (bot.py:111-113).
StartAfter(r, observed_status) ==
    IF observed_status # "queued" /\ processing_start_time[r] = NoTime
    THEN now
    ELSE processing_start_time[r]

\* The processing time measured from the start of polling.
Elapsed_SinceFirstPoll(r, start) == IF start = NoTime THEN elapsed[r] ELSE now

\* elapsed = asyncio.get_event_loop().time() - processing_start_time
\* (bot.py:102, 118), computed only when a start is recorded.
Elapsed(r, start) == IF start = NoTime THEN elapsed[r] ELSE now - start

\* One timer for all jobs: a poll gives up when any job's budget is spent.
TimedOut_AnyJob(r, start) ==
    \/ start # NoTime /\ now - start > timeout[r]
    \/ \E q \in DOMAIN pc \ {r} :
          /\ processing_start_time[q] # NoTime
          /\ now - processing_start_time[q] > timeout[q]

\* The timeout measured from the start of polling, queued or not.
TimedOut_SincePollingBegan(r, start) ==
    now - (IF start = NoTime THEN 0 ELSE start) > timeout[r]

\* The timeout check of one poll (bot.py:117-121), start being
\* processing_start_time at that point.
TimedOut(r, start) == start # NoTime /\ now - start > timeout[r]

\* The loop goes on after a 'completed' status.
Returns_KeepsPolling(d) == FALSE

\* if status == "completed": ... return data (bot.py:100-106)
Returns(d) == d.status = "completed"

\* The timeout is checked before the status that was read is examined.
poll_job_status_TimeoutFirst(r) ==
    /\ pc[r] = "poll"
    /\ now >= wake[r]
    /\ poll_count' = [poll_count EXCEPT ![r] = @ + 1]
    /\ \E resp \in StatusResponses :
        /\ observed' = [observed EXCEPT ![r] = @ \cup {Seen(resp)}]
        /\ IF resp.http # 200
           THEN /\ Raise(r, <<"status">>,
                         "Failed to get job status: " \o HttpText(resp.http),
                         "FetchFailed")
                /\ UNCHANGED <<data, processing_start_time, wake, elapsed>>
           ELSE /\ data' = [data EXCEPT ![r] = resp.data]
                /\ IF TimedOut(r, processing_start_time[r])
                   THEN /\ Raise(r, <<"status">>, "Job timed out", "JobTimedOut")
                        /\ elapsed' = [elapsed EXCEPT ![r] =
                                         Elapsed(r, processing_start_time[r])]
                        /\ UNCHANGED <<processing_start_time, wake>>
                   ELSE IF Returns(resp.data)
                   THEN /\ log' = [log EXCEPT ![r] = Append(@, "status")]
                        /\ pc' = [pc EXCEPT ![r] = "download"]
                        /\ elapsed' = [elapsed EXCEPT ![r] =
                                         Elapsed(r, processing_start_time[r])]
                        /\ UNCHANGED <<text, outcome, processing_start_time, wake>>
                   ELSE IF resp.data.status = "failed"
                   THEN /\ Raise(r, <<"status">>, JobError(resp.data), "JobFailed")
                        /\ UNCHANGED <<processing_start_time, wake, elapsed>>
                   ELSE LET start == StartAfter(r, resp.data.status)
                        IN  /\ processing_start_time' =
                                   [processing_start_time EXCEPT ![r] = start]
                            /\ elapsed' = [elapsed EXCEPT ![r] = Elapsed(r, start)]
                            /\ IF TimedOut(r, start)
                               THEN /\ Raise(r, <<"status">>, "Job timed out",
                                             "JobTimedOut")
                                    /\ wake' = wake
                               ELSE /\ log' = [log EXCEPT ![r] = Append(@, "status")]
                                    /\ wake' = [wake EXCEPT ![r] = now + POLL_INTERVAL]
                                    /\ UNCHANGED <<pc, text, outcome>>
    /\ UNCHANGED <<config, now, handler, gate, attachments, form, timeout,
                   submit_status, outVars, gateCall, resizeCall, langVars, message>>

\* One iteration of the loop of poll_job_status (bot.py:88-123), entered
\* once the previous iteration's sleep has elapsed.
poll_job_status(r) ==
    /\ pc[r] = "poll"
    /\ now >= wake[r]
    /\ poll_count' = [poll_count EXCEPT ![r] = @ + 1]
    /\ \E resp \in StatusResponses :
        /\ observed' = [observed EXCEPT ![r] = @ \cup {Seen(resp)}]
        /\ IF resp.http # 200
           THEN /\ Raise(r, <<"status">>,
                         "Failed to get job status: " \o HttpText(resp.http),
                         "FetchFailed")
                /\ UNCHANGED <<data, processing_start_time, wake, elapsed>>
           ELSE /\ data' = [data EXCEPT ![r] = resp.data]
                /\ IF Returns(resp.data)
                   THEN /\ log' = [log EXCEPT ![r] = Append(@, "status")]
                        /\ pc' = [pc EXCEPT ![r] = "download"]
                        /\ elapsed' = [elapsed EXCEPT ![r] =
                                         Elapsed(r, processing_start_time[r])]
                        /\ UNCHANGED <<text, outcome, processing_start_time, wake>>
                   ELSE IF resp.data.status = "failed"
                   THEN /\ Raise(r, <<"status">>, JobError(resp.data), "JobFailed")
                        /\ UNCHANGED <<processing_start_time, wake, elapsed>>
                   ELSE LET start == StartAfter(r, resp.data.status)
                        IN  /\ processing_start_time' =
                                   [processing_start_time EXCEPT ![r] = start]
                            /\ elapsed' = [elapsed EXCEPT ![r] = Elapsed(r, start)]
                            /\ IF TimedOut(r, start)
                               THEN /\ Raise(r, <<"status">>, "Job timed out",
                                             "JobTimedOut")
                                    /\ wake' = wake
                               ELSE /\ log' = [log EXCEPT ![r] = Append(@, "status")]
                                    /\ wake' = [wake EXCEPT ![r] = now + POLL_INTERVAL]
                                    /\ UNCHANGED <<pc, text, outcome>>
    /\ UNCHANGED <<config, now, handler, gate, attachments, form, timeout,
                   submit_status, outVars, gateCall, resizeCall, langVars, message>>

\* ---------------------------------------------------------------- download
\* The url is built from the job id instead of the record.
OutputReference_Fixed(r) == "/img/1.png"

\* result["output_image_url"], result being what poll_job_status returned
\* (bot.py:106, 283, 354, 425, 511, 615).
OutputReference(r) == data[r].output_image_url

\* download_image (bot.py:126-136).
download_image(r) ==
    /\ pc[r] = "download"
    /\ fetched_url' = [fetched_url EXCEPT ![r] = OutputReference(r)]
    /\ \E http \in {200, 500} :
        /\ download_status' = [download_status EXCEPT ![r] = http]
        /\ IF http # 200
           THEN Raise(r, <<"output">>,
                      "Failed to download image: " \o HttpText(http),
                      "DownloadFailed")
           ELSE /\ log' = [log EXCEPT ![r] = Append(@, "output")]
                /\ pc' = [pc EXCEPT ![r] = "deliver"]
                /\ UNCHANGED <<text, outcome>>
    /\ UNCHANGED <<config, now, handler, gate, attachments, form, pollVars,
                   submit_status, gateCall, resizeCall, langVars, message>>

\* The message with the image (bot.py:284-292, 355-363, 426-434, 512-524,
\* 616-625), after which the session's `async with` is left.
deliver(r) ==
    /\ pc[r] = "deliver"
    /\ Stop(r, <<"image", "session_close">>,
            IF handler[r] = "handle_generate_message"
            THEN <<"Here's your image!", fetched_url[r]>>
            ELSE IF handler[r] \in MessageHandlers
            THEN <<"Here's your edited image!", fetched_url[r]>>
            ELSE IF handler[r] = "generate"
            THEN <<"Generated Image", fetched_url[r]>>
            ELSE <<"Edited Image", fetched_url[r]>>,
            "delivered")
    /\ UNCHANGED <<config, now, handler, gate, attachments, form, pollVars,
                   submit_status, outVars, gateCall, resizeCall, langVars, message>>

\* The backend request of /status, /queue, /system and its rendering
\* (bot.py:651-677, 702-721, 746-770).
info_fetch(r) ==
    /\ pc[r] = "info"
    /\ \E http \in {200, 404, 500} :
        IF http = 404 /\ handler[r] = "status"
        THEN Stop(r, <<"info", "error", "session_close">>, <<"Job not found.", "">>,
                  "NotFound")
        ELSE IF http # 200
        THEN Stop(r, <<"info", "error", "session_close">>,
                  <<IF handler[r] = "status" THEN "Failed to get status: "
                    ELSE IF handler[r] = "queue" THEN "Failed to get queue info: "
                    ELSE "Failed to get system info: ", HttpText(http)>>,
                  "InfoFailed")
        ELSE Stop(r, <<"info", "session_close", "embed">>,
                  IF handler[r] = "status" THEN <<"Job Status: ", "job_id">>
                  ELSE IF handler[r] = "queue" THEN <<"Queue Status", "">>
                  ELSE <<"System Information", "">>,
                  "shown")
    /\ UNCHANGED <<config, now, handler, gate, attachments, form, pollVars,
                   submit_status, outVars, gateCall, resizeCall, langVars, message>>

\* -------------------------------------------------------------------- time
\* A poller whose timeout is armed and that is asleep.
ArmedSleeper(r) ==
    pc[r] = "poll" /\ processing_start_time[r] # NoTime /\ now < wake[r]

\* The clock advances.  Time 0 is the arrival of the first trigger.  The
\* clock is stopped at MaxTime, except to let an armed poller reach the end
\* of its sleep.
Tick ==
    /\ \E r \in DOMAIN pc : pc[r] # "idle"
    /\ now < MaxTime \/ \E r \in DOMAIN pc : ArmedSleeper(r)
    /\ now' = now + 1
    /\ UNCHANGED <<config, pc, handler, gate, attachments, form, pollVars,
                   submit_status, outVars, log, text, outcome, gateCall, resizeCall, langVars, message>>

\* ------------------------------------------------------------ specification
Step(r) ==
    \/ on_message(r)
    \/ generate(r)
    \/ edit(r)
    \/ status(r)
    \/ queue(r)
    \/ system(r)
    \/ preprocess(r)
    \/ submit(r)
    \/ poll_job_status(r)
    \/ download_image(r)
    \/ deliver(r)
    \/ info_fetch(r)

Next == (\E r \in Reqs : Step(r)) \/ Tick

Spec == Init /\ [][Next]_vars

\* ------------------------------------------------- is_allowed on its own
\* Every configuration of the three allow-lists over the sample ids.
GateInit ==
    /\ ALLOWED_GUILDS \in SUBSET Guilds
    /\ ALLOWED_CHANNELS \in SUBSET Channels
    /\ ALLOWED_DMS \in SUBSET Users
    /\ JOB_TIMEOUT = 1
    /\ DEFAULT_LANGUAGE = "en"
    /\ Idle

\* A call is_allowed(guild_id, channel_id, user_id) (bot.py:54).
call_is_allowed ==
    /\ \E guild_id \in Guilds \cup {None}, channel_id \in Channels \cup {None},
          user_id \in Users \cup {None} :
        /\ gate_args' = <<guild_id, channel_id, user_id>>
        /\ gate_result' = is_allowed(guild_id, channel_id, user_id)
    /\ UNCHANGED <<config, now, pc, handler, gate, attachments, form, pollVars,
                   submit_status, outVars, log, text, outcome, resizeCall,
                   langVars, message>>

GateSpec == GateInit /\ [][call_is_allowed]_vars

\* ------------------------------------- resize_image_if_needed on its own
\* The sides of the images and the limits the function is called with.
Sides == (1..MaxSide) \cup {49, 561, 768, 1024, 1122, 2048, 5000}
Limits == (1..MaxLimit) \cup {512, 1024}

ResizeInit ==
    /\ ALLOWED_GUILDS = {} /\ ALLOWED_CHANNELS = {} /\ ALLOWED_DMS = {}
    /\ JOB_TIMEOUT = 1
    /\ DEFAULT_LANGUAGE = "en"
    /\ Idle

\* The call resize_image_if_needed(image_data, max_dimension) (bot.py:139)
\* of a behaviour.
call_resize_image_if_needed ==
    /\ resize_args = <<>>
    /\ \E width \in Sides, height \in Sides, max_dimension \in Limits :
        LET image_data == [decodable |-> TRUE, width |-> width,
                           height |-> height, reencoded |-> FALSE]
        IN  /\ resize_args' = <<image_data, max_dimension>>
            /\ resize_result' = resize_image_if_needed(image_data, max_dimension)
    /\ UNCHANGED <<config, now, pc, handler, gate, attachments, form, pollVars,
                   submit_status, outVars, log, text, outcome, gateCall,
                   langVars, message>>

ResizeSpec == ResizeInit /\ [][call_resize_image_if_needed]_vars

\* Two requests whose jobs the backend accepted at time 0 and that poll
\* concurrently (bot.py:280, 508: each handler awaits its own
\* poll_job_status, the event loop interleaving their iterations).
Pollers == {1, 2}

PollInit ==
    /\ ALLOWED_GUILDS = {} /\ ALLOWED_CHANNELS = {} /\ ALLOWED_DMS = {}
    /\ JOB_TIMEOUT = 1
    /\ DEFAULT_LANGUAGE = "en"
    /\ now = 0
    /\ pc = [r \in Pollers |-> "poll"]
    /\ handler = [r \in Pollers |-> "handle_generate_message"]
    /\ gate = [r \in Pollers |-> "allowed"]
    /\ attachments = [r \in Pollers |-> <<>>]
    /\ form = [r \in Pollers |-> <<>>]
    /\ timeout = [r \in Pollers |-> JOB_TIMEOUT]
    /\ processing_start_time = [r \in Pollers |-> NoTime]
    /\ poll_count = [r \in Pollers |-> 0]
    /\ wake = [r \in Pollers |-> 0]
    /\ observed = [r \in Pollers |-> {}]
    /\ data = [r \in Pollers |-> NoData]
    /\ elapsed = [r \in Pollers |-> NoTime]
    /\ fetched_url = [r \in Pollers |-> "none"]
    /\ log = [r \in Pollers |-> <<"ack", "session_open", "submit">>]
    /\ text = [r \in Pollers |-> AckMessage(<<>>)]
    /\ outcome = [r \in Pollers |-> "none"]
    /\ submit_status = [r \in Pollers |-> 200]
    /\ download_status = [r \in Pollers |-> 0]
    /\ gate_args = <<>>
    /\ gate_result = FALSE
    /\ resize_args = <<>>
    /\ resize_result = <<>>
    /\ user_languages = [u \in {} |-> ""]
    /\ sets = <<>>
    /\ lang_args = <<>>
    /\ lang_result = <<>>
    /\ message = NoMessage

PollNext == (\E r \in Pollers : poll_job_status(r)) \/ Tick

PollSpec == PollInit /\ [][PollNext]_vars

\* ------------------------------------------------------- translations.py
\* The supported languages (translations.py:11-14).
LANGUAGES == {"en", "zh"}

\* The values of the environment variable DEFAULT_LANGUAGE; None when unset.
EnvLanguages == {None, "en", "zh", "ZH", "fr"}

\* str.lower() on those values.
Lower(s) == IF s = "ZH" THEN "zh" ELSE s

\* translations.py:17-18.
DefaultLanguage(env) ==
    LET env_lang == Lower(IF env = None THEN "en" ELSE env)
    IN  IF env_lang \in LANGUAGES THEN env_lang ELSE "en"

\* The language codes callers pass: the supported ones and one that is not.
Langs == LANGUAGES \cup {"fr"}

\* translations.py:46-270, the entries of the messages that bot.py sends.
\* A template is written up to its placeholder; the Chinese templates are
\* written as "zh:" and the key, the strings of a module being ASCII.
TRANSLATIONS ==
    [ enqueued |->
        [en |-> "Got it, I have enqueued your request.", zh |-> "zh:enqueued"],
      enqueued_multi |->
        [en |-> "Got it, I have enqueued your request with {img_count} image(s).",
         zh |-> "zh:enqueued_multi"],
      gen_pipeline_unavailable |->
        [en |-> "Sorry, the generation pipeline is not available right now.",
         zh |-> "zh:gen_pipeline_unavailable"],
      edit_pipeline_unavailable |->
        [en |-> "Sorry, the edit pipeline is not available right now.",
         zh |-> "zh:edit_pipeline_unavailable"],
      failed_submit_job |->
        [en |-> "Failed to submit job: ", zh |-> "zh:failed_submit_job"],
      invalid_request |->
        [en |-> "Invalid request: ", zh |-> "zh:invalid_request"],
      heres_your_image |->
        [en |-> "Here's your image!", zh |-> "zh:heres_your_image"],
      heres_your_edited_image |->
        [en |-> "Here's your edited image!", zh |-> "zh:heres_your_edited_image"],
      something_went_wrong |->
        [en |-> "Sorry, something went wrong: ", zh |-> "zh:something_went_wrong"],
      cmd_not_available |->
        [en |-> "This command is not available here.",
         zh |-> "zh:cmd_not_available"],
      gen_pipeline_not_available |->
        [en |-> "Generation pipeline is not available.",
         zh |-> "zh:gen_pipeline_not_available"],
      edit_pipeline_not_available |->
        [en |-> "Edit pipeline is not available.",
         zh |-> "zh:edit_pipeline_not_available"],
      generating_image |->
        [en |-> "Generating image... (Job ID: ",
         zh |-> "zh:generating_image"],
      editing_image |->
        [en |-> "Editing image... (Job ID: ", zh |-> "zh:editing_image"],
      attach_valid_image |->
        [en |-> "Please attach a valid image file.", zh |-> "zh:attach_valid_image"],
      error |->
        [en |-> "Error: ", zh |-> "zh:error"],
      embed_generated_image |->
        [en |-> "Generated Image", zh |-> "zh:embed_generated_image"],
      embed_edited_image |->
        [en |-> "Edited Image", zh |-> "zh:embed_edited_image"],
      embed_job_status |->
        [en |-> "Job Status: ", zh |-> "zh:embed_job_status"],
      embed_queue_status |->
        [en |-> "Queue Status", zh |-> "zh:embed_queue_status"],
      embed_system_info |->
        [en |-> "System Information", zh |-> "zh:embed_system_info"],
      job_not_found |->
        [en |-> "Job not found.", zh |-> "zh:job_not_found"],
      failed_get_status |->
        [en |-> "Failed to get status: ", zh |-> "zh:failed_get_status"],
      failed_get_queue |->
        [en |-> "Failed to get queue info: ", zh |-> "zh:failed_get_queue"],
      failed_get_system |->
        [en |-> "Failed to get system info: ", zh |-> "zh:failed_get_system"] ]

\* The keys callers pass: those of the table and one that is not in it.
Keys == DOMAIN TRANSLATIONS \cup {"no_such_key"}

\* dict.get(key, default)
Get(d, key, default) == IF key \in DOMAIN d THEN d[key] ELSE default

\* translations.py:24-26.
get_user_language(user_id) == Get(user_languages, user_id, DEFAULT_LANGUAGE)

\* A lookup that falls back to the template of the configured default.
t_FallbackToDefault(key, lang, kwargs) ==
    LET found == Get(Get(TRANSLATIONS, key, <<>>), lang, None)
        template == IF found = None
                    THEN Get(Get(TRANSLATIONS, key, <<>>), DEFAULT_LANGUAGE, key)
                    ELSE found
    IN  <<template, kwargs>>

\* translations.py:34-42: the template of key in lang, else the English
\* one, else the key; kwargs fills the placeholder.
t(key, lang, kwargs) ==
    LET found == Get(Get(TRANSLATIONS, key, <<>>), lang, None)
        template == IF found = None
                    THEN Get(Get(TRANSLATIONS, key, <<>>), "en", key)
                    ELSE found
    IN  <<template, kwargs>>

LangInit ==
    /\ ALLOWED_GUILDS = {} /\ ALLOWED_CHANNELS = {} /\ ALLOWED_DMS = {}
    /\ JOB_TIMEOUT = 1
    /\ \E env \in EnvLanguages : DEFAULT_LANGUAGE = DefaultLanguage(env)
    /\ Idle

\* A set whose entries are all replaced: every user's language is lang.
set_user_language_EveryUser(user_id, lang) ==
    /\ Len(sets) < MaxSets
    /\ user_languages' = [u \in DOMAIN user_languages \cup {user_id} |-> lang]
    /\ sets' = Append(sets, <<user_id, lang>>)
    /\ UNCHANGED <<config, now, pc, handler, gate, attachments, form, pollVars,
                   submit_status, outVars, log, text, outcome, gateCall,
                   resizeCall, lang_args, lang_result,
                   message>>

\* translations.py:29-31. The function has no await: a call is one step of
\* the event loop.
set_user_language(user_id, lang) ==
    /\ Len(sets) < MaxSets
    /\ user_languages' = [u \in DOMAIN user_languages \cup {user_id} |->
                            IF u = user_id THEN lang ELSE user_languages[u]]
    /\ sets' = Append(sets, <<user_id, lang>>)
    /\ UNCHANGED <<config, now, pc, handler, gate, attachments, form, pollVars,
                   submit_status, outVars, log, text, outcome, gateCall,
                   resizeCall, lang_args, lang_result,
                   message>>

\* The call get_user_language(user_id) of a behaviour, itself one step.
call_get_user_language ==
    /\ \E user_id \in Users :
        /\ lang_args' = <<"get_user_language", user_id>>
        /\ lang_result' = <<get_user_language(user_id)>>
    /\ UNCHANGED <<config, now, pc, handler, gate, attachments, form, pollVars,
                   submit_status, outVars, log, text, outcome, gateCall,
                   resizeCall, user_languages, sets,
                   message>>

\* The call t(key, lang) of a behaviour, lang being the caller's language
\* or a code given outright.
call_t ==
    /\ \E key \in Keys, lang \in Langs :
        /\ lang_args' = <<"t", key, lang>>
        /\ lang_result' = t(key, lang, "")
    /\ UNCHANGED <<config, now, pc, handler, gate, attachments, form, pollVars,
                   submit_status, outVars, log, text, outcome, gateCall,
                   resizeCall, user_languages, sets,
                   message>>

LangNext ==
    \/ \E user_id \in Users, lang \in Langs : set_user_language(user_id, lang)
    \/ call_get_user_language
    \/ call_t

LangSpec == LangInit /\ [][LangNext]_vars


\* The event loop runs every coroutine that is ready, and its clock advances.
Fairness ==
    /\ WF_vars(Tick)
    /\ \A r \in Reqs : WF_vars(poll_job_status(r))

LiveSpec == Init /\ [][Next]_vars /\ Fairness

\* ------------------------------------------------------------------ claims
FailureOutcomes ==
    {"DecodeError", "InvalidAttachment", "PipelineUnavailable", "InvalidRequest",
     "SubmitFailed", "SubmitError", "FetchFailed", "JobFailed", "JobTimedOut",
     "DownloadFailed"}

\* C1: poll_job_status fails with 'Job timed out' only on a poll at which a
\* processing-start time is recorded and the time elapsed since it is
\* strictly greater than the timeout; a poller that has only ever observed
\* 'queued' has not timed out, whatever the number of polls and the time.
C1_TimeoutOnlyOnceProcessing ==
    \A r \in Reqs :
        /\ outcome[r] = "JobTimedOut" =>
            /\ processing_start_time[r] # NoTime
            /\ now - processing_start_time[r] > timeout[r]
        /\ observed[r] \subseteq {"queued"} => outcome[r] # "JobTimedOut"

\* A poll that timed out after a queued phase of the job.
C1_Witness ==
    \E r \in Reqs :
        /\ outcome[r] = "JobTimedOut"
        /\ "queued" \in observed[r]
        /\ poll_count[r] >= 3

\* A poller that kept seeing 'queued' beyond the timeout and is still polling.
C1_QueuedPastTimeout ==
    \E r \in Reqs :
        /\ pc[r] = "poll" /\ observed[r] = {"queued"}
        /\ poll_count[r] >= 3 /\ now > timeout[r]

\* C2: if every status fetch of a job is answered 200 'processing', the poll
\* eventually fails with 'Job timed out'; once it has, the request issues no
\* further status fetch and no other backend request.
C2_StuckProcessingTimesOut ==
    /\ \A r \in Reqs :
        (pc[r] = "poll") ~>
            (outcome[r] = "JobTimedOut" \/ ~(observed[r] \subseteq {"processing"}))
    /\ [][\A r \in Reqs : outcome[r] = "JobTimedOut" =>
            /\ log'[r] = log[r]
            /\ poll_count'[r] = poll_count[r]]_vars

\* A poll that only ever saw 'processing' and timed out.
C2_Witness ==
    \E r \in Reqs :
        /\ outcome[r] = "JobTimedOut"
        /\ observed[r] = {"processing"}
        /\ log[r][Len(log[r])] = "error"
        /\ log[r][Len(log[r]) - 2] = "status"

\* C3: when the submit POST is answered with anything but 200, the request
\* makes no status fetch and no output fetch: it reports the error once (an
\* edit of the acknowledgment or a followup) and the handler is over.
C3_RejectedSubmitStops ==
    \A r \in Reqs :
        submit_status[r] \notin {0, 200} =>
            /\ pc[r] = "done"
            /\ outcome[r] \in {"PipelineUnavailable", "InvalidRequest", "SubmitFailed"}
            /\ Count(log[r], "status") = 0 /\ poll_count[r] = 0
            /\ Count(log[r], "output") = 0
            /\ Count(log[r], "submit") = 1
            /\ Len(log[r]) >= 3
            /\ SubSeq(log[r], Len(log[r]) - 2, Len(log[r])) =
                   <<"submit", "error", "session_close">>

\* A reply-to-bot-image edit whose submit was answered 400.
C3_Witness ==
    \E r \in Reqs :
        /\ handler[r] = "handle_reply_edit"
        /\ submit_status[r] = 400
        /\ text[r] = <<"Invalid request: ", "prompt too long">>

\* A step of request r failed.
FailedStep(r) ==
    \/ outcome[r] \in FailureOutcomes
    \/ submit_status[r] \notin {0, 200}
    \/ observed[r] \cap {"http_error", "failed"} # {}
    \/ "error" \in { log[r][i] : i \in DOMAIN log[r] }

\* C4: a failure at any step of a request produces exactly one message that
\* reports it, and after that message the request makes no backend request
\* and sends no other message.
C4_FailureOneMessageThenNothing ==
    \A r \in Reqs :
        /\ Count(log[r], "error") <= 1
        /\ (FailedStep(r) /\ handler[r] \notin InfoCommands) =>
            /\ pc[r] = "done"
            /\ outcome[r] \in FailureOutcomes
            /\ Count(log[r], "error") = 1
            /\ \A i \in DOMAIN log[r] :
                  i > FirstIndex(log[r], "error") =>
                      log[r][i] \notin BackendCalls \cup UserMessages

\* A /generate whose job completed and whose output download failed: the
\* acknowledgment, the notice, then the one error message.
C4_Witness ==
    \E r \in Reqs :
        /\ handler[r] = "generate"
        /\ outcome[r] = "DownloadFailed"
        /\ Count(log[r], "error") = 1
        /\ log[r][Len(log[r])] = "error"

\* C5: a trigger the gate denies makes no backend request, is not
\* acknowledged and has no image preprocessed.
C5_DeniedDoesNothing ==
    \A r \in Reqs :
        gate[r] = "denied" =>
            /\ pc[r] = "done"
            /\ \A i \in DOMAIN log[r] :
                  log[r][i] \notin BackendCalls \cup {"ack", "preprocess", "session_open"}
            /\ form[r] = <<>>
            /\ submit_status[r] = 0 /\ poll_count[r] = 0

\* A denied /edit.
C5_Witness ==
    \E r \in Reqs :
        gate[r] = "denied" /\ handler[r] = "edit" /\ log[r] = <<"deny">>

C6_WitnessSlash ==
    \E r \in Reqs :
        gate[r] = "denied" /\ handler[r] = "status" /\ log[r] = <<"deny">>

\* C7: for a direct message (guild_id None) is_allowed is TRUE exactly when
\* the caller id is given and is in ALLOWED_DMS, whatever ALLOWED_GUILDS,
\* ALLOWED_CHANNELS and channel_id are; with ALLOWED_DMS empty every direct
\* message is denied.
C7_DirectMessageGate ==
    (gate_args # <<>> /\ gate_args[1] = None) =>
        /\ gate_result <=> (gate_args[3] # None /\ gate_args[3] \in ALLOWED_DMS)
        /\ ALLOWED_DMS = {} => ~gate_result

\* A direct message allowed although the guild and channel lists are set
\* and do not hold its channel.
C7_Witness ==
    /\ gate_args # <<>> /\ gate_args[1] = None /\ gate_result
    /\ ALLOWED_GUILDS # {} /\ ALLOWED_CHANNELS # {}
    /\ gate_args[2] \notin ALLOWED_CHANNELS

\* A direct message denied because ALLOWED_DMS is empty.
C7_WitnessEmpty ==
    /\ gate_args # <<>> /\ gate_args[1] = None /\ ~gate_result
    /\ ALLOWED_DMS = {} /\ gate_args[3] # None

\* C8: for a guild origin (guild_id not None) is_allowed is TRUE exactly when
\* (ALLOWED_GUILDS is empty or holds guild_id) and (ALLOWED_CHANNELS is empty
\* or holds channel_id), whatever the caller id and ALLOWED_DMS are; with
\* both lists empty every guild trigger is allowed.
C8_GuildGate ==
    (gate_args # <<>> /\ gate_args[1] # None) =>
        /\ gate_result <=>
              /\ (ALLOWED_GUILDS = {} \/ gate_args[1] \in ALLOWED_GUILDS)
              /\ (ALLOWED_CHANNELS = {} \/ gate_args[2] \in ALLOWED_CHANNELS)
        /\ (ALLOWED_GUILDS = {} /\ ALLOWED_CHANNELS = {}) => gate_result

\* A guild trigger denied by the channel list alone, its caller being in
\* ALLOWED_DMS.
C8_Witness ==
    /\ gate_args # <<>> /\ gate_args[1] # None /\ ~gate_result
    /\ gate_args[1] \in ALLOWED_GUILDS
    /\ ALLOWED_CHANNELS # {} /\ gate_args[2] \notin ALLOWED_CHANNELS
    /\ gate_args[3] \in ALLOWED_DMS

\* A guild trigger allowed with both lists empty, its caller not given.
C8_WitnessEmpty ==
    /\ gate_args # <<>> /\ gate_args[1] # None /\ gate_result
    /\ ALLOWED_GUILDS = {} /\ ALLOWED_CHANNELS = {}
    /\ gate_args[3] = None /\ ALLOWED_DMS # {}

\* C9 as claimed: the timeout an edit job is polled with is strictly longer
\* than the timeout a generation job is polled with.
C9_EditBudgetLonger ==
    \A r \in Reqs :
        (pc[r] = "poll" /\ handler[r] \in EditHandlers) =>
            \A g \in GenerateHandlers : timeout[r] > PollTimeout(g)


\* The positions of entry e in log[r].
Positions(r, e) == { i \in DOMAIN log[r] : log[r][i] = e }

\* C10 as claimed: every request whose job was observed 'completed' ends
\* having fetched the output once and delivered one message with the image.
C10_CompletedAlwaysDelivered ==
    \A r \in Reqs :
        (pc[r] = "done" /\ "completed" \in observed[r]) =>
            /\ Count(log[r], "output") = 1
            /\ Count(log[r], "image") = 1

\* C10, amended: a request whose job was observed 'completed' requests the
\* output exactly once, from the output reference of the completed status
\* record and only after that status was observed; if that download is
\* answered 200 it then delivers exactly one message with the fetched bytes,
\* otherwise it delivers no image and reports the download failure; no
\* image is ever delivered for a job that was not observed 'completed'.
C10_FetchedOnceDeliveredIfDownloaded ==
    \A r \in Reqs :
        /\ Count(log[r], "output") <= 1
        /\ Count(log[r], "image") <= 1
        /\ Positions(r, "output") # {} =>
            /\ submit_status[r] = 200
            /\ "completed" \in observed[r] /\ data[r].status = "completed"
            /\ fetched_url[r] = data[r].output_image_url
            /\ \A i \in Positions(r, "status"), j \in Positions(r, "output") : i < j
        /\ Positions(r, "image") # {} =>
            /\ download_status[r] = 200
            /\ text[r][2] = data[r].output_image_url
            /\ \A i \in Positions(r, "output"), j \in Positions(r, "image") : i < j
            /\ Positions(r, "output") # {}
        /\ (pc[r] = "done" /\ "completed" \in observed[r]) =>
            /\ Count(log[r], "output") = 1
            /\ IF download_status[r] = 200
               THEN Count(log[r], "image") = 1 /\ outcome[r] = "delivered"
               ELSE Count(log[r], "image") = 0 /\ outcome[r] = "DownloadFailed"

\* The job went queued, processing, completed and its image was delivered
\* from the second sample url.
C10_Witness ==
    \E r \in Reqs :
        /\ outcome[r] = "delivered"
        /\ observed[r] = {"queued", "processing", "completed"}
        /\ fetched_url[r] = "/img/2.png"
        /\ log[r][Len(log[r]) - 1] = "image"

\* The job completed and the download of its output was answered 500.
C10_WitnessDownloadFailed ==
    \E r \in Reqs :
        /\ pc[r] = "done" /\ "completed" \in observed[r]
        /\ download_status[r] = 500 /\ Count(log[r], "image") = 0

\* C11: in every allowed request that submits a job, the acknowledgment (the
\* reply, or the deferred interaction response) is sent before the submit
\* POST, which is the request's first backend request.
C11_AckBeforeSubmit ==
    \A r \in Reqs :
        Positions(r, "submit") # {} =>
            /\ gate[r] = "allowed"
            /\ Count(log[r], "ack") = 1
            /\ FirstIndex(log[r], "ack") < FirstIndex(log[r], "submit")
            /\ \A i \in DOMAIN log[r] :
                  log[r][i] \in BackendCalls => FirstIndex(log[r], "submit") <= i

\* A mention-with-image edit that was acknowledged, preprocessed its image
\* and then submitted.
C11_Witness ==
    \E r \in Reqs :
        /\ handler[r] = "handle_edit_message"
        /\ Len(log[r]) >= 4
        /\ SubSeq(log[r], 1, 4) = <<"ack", "session_open", "preprocess", "submit">>

\* C12 as claimed: for both job kinds and every trigger the submit response
\* is classified 503 -> PipelineUnavailable, 400 -> InvalidRequest with the
\* backend's detail text, any other non-200 -> SubmitFailed with the code,
\* and only a 200 yields a job to poll.
C12_SubmitClassifiedForBothKinds ==
    \A r \in Reqs :
        /\ submit_status[r] = 503 => outcome[r] = "PipelineUnavailable"
        /\ submit_status[r] = 400 =>
              /\ outcome[r] = "InvalidRequest"
              /\ text[r][1] = "Invalid request: "
              /\ text[r][2] \in {"Unknown error", "prompt too long"}
        /\ submit_status[r] \notin {0, 200, 400, 503} =>
              /\ outcome[r] = "SubmitFailed"
              /\ text[r] = <<"Failed to submit job: ", HttpText(submit_status[r])>>
        /\ (pc[r] = "poll" \/ poll_count[r] > 0) => submit_status[r] = 200

\* The same classification, held by the edit handlers.
C12_EditSubmitClassified ==
    \A r \in Reqs :
        handler[r] \in EditHandlers =>
            /\ submit_status[r] = 503 => outcome[r] = "PipelineUnavailable"
            /\ submit_status[r] = 400 =>
                  /\ outcome[r] = "InvalidRequest"
                  /\ text[r][1] = "Invalid request: "
                  /\ text[r][2] \in {"Unknown error", "prompt too long"}
            /\ submit_status[r] \notin {0, 200, 400, 503} =>
                  /\ outcome[r] = "SubmitFailed"
                  /\ text[r] = <<"Failed to submit job: ", HttpText(submit_status[r])>>
            /\ (pc[r] = "poll" \/ poll_count[r] > 0) => submit_status[r] = 200

\* A generation request whose submit was answered 400 with a detail text.
C12_Generate400 ==
    \E r \in Reqs :
        /\ handler[r] \in GenerateHandlers /\ submit_status[r] = 400
        /\ outcome[r] = "SubmitFailed"
        /\ text[r] = <<"Failed to submit job: ", "400">>

\* C13 as claimed: when a status fetch returns 'failed', the failure carries
\* the backend's error message when the record has one, and the fallback
\* 'Job failed' whenever it has none (error absent, null or empty).
C13_FailedMessageOrFallback ==
    \A r \in Reqs :
        outcome[r] = "JobFailed" =>
            /\ data[r].status = "failed"
            /\ text[r][2] = IF data[r].error \in {"absent", "null", ""}
                            THEN "Job failed" ELSE data[r].error

\* What holds: the fallback is used when the error key is absent, and a
\* non-empty error message is propagated as it is.
C13_FallbackOnlyWhenKeyAbsent ==
    \A r \in Reqs :
        (outcome[r] = "JobFailed" /\ data[r].error \notin {"null", ""}) =>
            text[r][2] = IF data[r].error = "absent"
                         THEN "Job failed" ELSE data[r].error

\* A failed job whose record has "error": null, reported as 'None'.
C13_NullError ==
    \E r \in Reqs :
        /\ outcome[r] = "JobFailed" /\ data[r].error = "null"
        /\ text[r][2] = "None"

\* poll_job_status of request r has observed a terminal outcome.
Terminal(r) ==
    \/ observed[r] \cap {"completed", "failed"} # {}
    \/ outcome[r] = "JobTimedOut"

\* C14: once poll_job_status has observed 'completed', 'failed' or has timed
\* out, it makes no further status fetch for the job; on 'completed' it
\* returns at once, with no sleep, and what it returns is the record of that
\* last status fetch.
C14_TerminalEndsPolling ==
    /\ [][\A r \in Reqs : Terminal(r) =>
            /\ poll_count'[r] = poll_count[r]
            /\ Count(log'[r], "status") = Count(log[r], "status")
            /\ data'[r] = data[r]
            /\ wake'[r] = wake[r]]_vars
    /\ [](\A r \in Reqs :
            /\ poll_count[r] = Count(log[r], "status")
            /\ Terminal(r) => pc[r] # "poll"
            /\ "completed" \in observed[r] =>
                  /\ data[r].status = "completed"
                  /\ data[r].output_image_url \in OutputUrls
                  /\ log[r][Len(log[r])] = "status" => pc[r] = "download")

\* A job observed queued, then processing, then completed on the third
\* fetch, whose record has been returned to the handler.
C14_Witness ==
    \E r \in Reqs :
        /\ pc[r] = "download"
        /\ observed[r] = {"queued", "processing", "completed"}
        /\ poll_count[r] = 3
        /\ data[r].output_image_url = "/img/2.png"

\* A job observed failed on its second fetch.
C14_WitnessFailed ==
    \E r \in Reqs :
        /\ outcome[r] = "JobFailed" /\ poll_count[r] = 2
        /\ observed[r] = {"processing", "failed"}

\* The outcomes that are exceptions raised inside the handler's try block.
RaisedOutcomes ==
    {"DecodeError", "SubmitError", "FetchFailed", "JobFailed", "JobTimedOut",
     "DownloadFailed"}

\* str(e) of the exception request r ended with.
RawMessage(r) ==
    CASE outcome[r] = "DecodeError" -> {"cannot identify image file"}
      [] outcome[r] = "SubmitError" -> {"Cannot connect to host"}
      [] outcome[r] = "FetchFailed" ->
            {"Failed to get job status: 404", "Failed to get job status: 500"}
      [] outcome[r] = "JobFailed" ->
            {"Job failed", "None", "", "CUDA out of memory"}
      [] outcome[r] = "JobTimedOut" -> {"Job timed out"}
      [] outcome[r] = "DownloadFailed" -> {"Failed to download image: 500"}

\* C15: an error raised by preprocessing, submit, status polling, a failed
\* job, a timeout or the output download does not escape the handler: the
\* handler ends normally after one message to the caller that contains the
\* error's message text; an observed failure is never left unreported.
C15_ErrorsCaughtAndRendered ==
    \A r \in Reqs :
        /\ outcome[r] \in RaisedOutcomes =>
            /\ pc[r] = "done"
            /\ Count(log[r], "error") = 1
            /\ log[r][Len(log[r])] = "error"
            /\ text[r][1] = IF handler[r] \in MessageHandlers
                            THEN "Sorry, something went wrong: " ELSE "Error: "
            /\ text[r][2] \in RawMessage(r)
            /\ outcome[r] = "JobFailed" => text[r][2] = JobError(data[r])
        /\ ( /\ pc[r] = "done" /\ handler[r] \in MessageHandlers \cup JobCommands
             /\ \/ observed[r] \cap {"http_error", "failed"} # {}
                \/ download_status[r] \notin {0, 200} ) =>
            /\ outcome[r] \in RaisedOutcomes
            /\ Count(log[r], "error") = 1

\* An /edit whose job failed with a backend message, reported to the caller.
C15_Witness ==
    \E r \in Reqs :
        /\ handler[r] = "edit" /\ outcome[r] = "JobFailed"
        /\ text[r] = <<"Error: ", "CUDA out of memory">>

\* A reply edit whose second image does not decode, reported to the caller.
C15_WitnessDecode ==
    \E r \in Reqs :
        /\ handler[r] = "handle_reply_edit" /\ outcome[r] = "DecodeError"
        /\ Len(form[r]) = 1
        /\ text[r] = <<"Sorry, something went wrong: ", "cannot identify image file">>

\* C16: when an attachment of an edit request does not decode as an image,
\* the caller is sent one error message that names the decoding failure,
\* the handler ends normally, and no submit is sent for the request: no
\* undecodable bytes ever reach the multipart body.
C16_UndecodableNeverSubmitted ==
    \A r \in Reqs :
        /\ \A i \in DOMAIN form[r] : form[r][i].data.decodable
        /\ ( /\ pc[r] \notin {"idle", "preprocess"}
             /\ \E i \in DOMAIN attachments[r] : ~attachments[r][i].image.decodable ) =>
            /\ outcome[r] = "DecodeError"
            /\ pc[r] = "done"
        /\ outcome[r] = "DecodeError" =>
            /\ \E i \in DOMAIN attachments[r] : ~attachments[r][i].image.decodable
            /\ Count(log[r], "submit") = 0 /\ submit_status[r] = 0
            /\ Count(log[r], "error") = 1 /\ log[r][Len(log[r])] = "error"
            /\ text[r][2] = "cannot identify image file"

\* A mention edit with two attachments, the second of which does not decode:
\* the first was preprocessed, then the request ended with the error.
C16_Witness ==
    \E r \in Reqs :
        /\ handler[r] = "handle_edit_message" /\ outcome[r] = "DecodeError"
        /\ Len(attachments[r]) = 2 /\ Len(form[r]) = 1
        /\ ~attachments[r][2].image.decodable
        /\ Count(log[r], "submit") = 0

\* C17: for a decodable image whose longest side is at most max_dimension,
\* equality included, resize_image_if_needed returns the bytes it was given,
\* not re-encoded.
C17_WithinLimitUnchanged ==
    (resize_args # <<>>
     /\ Max(resize_args[1].width, resize_args[1].height) <= resize_args[2]) =>
        /\ resize_result = resize_args[1]
        /\ ~resize_result.reencoded

\* A 1024 x 768 image under the limit 1024: the longest side is the limit.
C17_Witness ==
    /\ resize_args # <<>>
    /\ resize_args[1].width = 1024 /\ resize_args[1].height = 768
    /\ resize_args[2] = 1024
    /\ resize_result = resize_args[1]

\* C18 as claimed: for an image whose longest side exceeds max_dimension the
\* new dimensions are floor(width * max_dimension / longest) and
\* floor(height * max_dimension / longest), both at most max_dimension, each
\* less than 1 away from the exact scaled value.
C18_ResizedToFloorOfScaled ==
    (resize_args # <<>>
     /\ Max(resize_args[1].width, resize_args[1].height) > resize_args[2]) =>
        LET width == resize_args[1].width
            height == resize_args[1].height
            max_dimension == resize_args[2]
            longest == Max(width, height)
            new_width == resize_result.width
            new_height == resize_result.height
        IN  /\ new_width = (width * max_dimension) \div longest
            /\ new_height = (height * max_dimension) \div longest
            /\ new_width <= max_dimension /\ new_height <= max_dimension
            /\ new_width * longest <= width * max_dimension
            /\ width * max_dimension < (new_width + 1) * longest
            /\ new_height * longest <= height * max_dimension
            /\ height * max_dimension < (new_height + 1) * longest

\* What holds: both new dimensions are at most max_dimension, and each is
\* the floor of the exact scaled value or one less.
C18_ResizedWithinOneOfFloor ==
    (resize_args # <<>>
     /\ Max(resize_args[1].width, resize_args[1].height) > resize_args[2]) =>
        LET width == resize_args[1].width
            height == resize_args[1].height
            max_dimension == resize_args[2]
            longest == Max(width, height)
        IN  /\ resize_result.reencoded
            /\ resize_result.width <= max_dimension
            /\ resize_result.height <= max_dimension
            /\ (width * max_dimension) \div longest - resize_result.width \in {0, 1}
            /\ (height * max_dimension) \div longest - resize_result.height \in {0, 1}

\* A 1122 x 1122 image under the default limit 1024, resized to 1023 x 1023.
C18_SquareOneShort ==
    /\ resize_args # <<>>
    /\ resize_args[1].width = 1122 /\ resize_args[1].height = 1122
    /\ resize_args[2] = 1024
    /\ resize_result.width = 1023 /\ resize_result.height = 1023

\* C19: an edit request with n >= 1 attachments that reaches its submit has
\* passed every attachment through resize_image_if_needed before the submit;
\* exactly the attachments whose longest side exceeds the limit were changed;
\* the multipart body has n 'images' fields in the order of the attachments,
\* the i-th with the i-th attachment's filename and declared media type.
C19_FormFieldsFollowAttachments ==
    \A r \in Reqs :
        (handler[r] \in EditHandlers /\ Positions(r, "submit") # {}) =>
            /\ Len(attachments[r]) >= 1
            /\ Len(form[r]) = Len(attachments[r])
            /\ Count(log[r], "preprocess") = Len(attachments[r])
            /\ \A i \in Positions(r, "preprocess"), j \in Positions(r, "submit") : i < j
            /\ \A i \in DOMAIN form[r] :
                LET attachment == attachments[r][i]
                    longest == Max(attachment.image.width, attachment.image.height)
                IN  /\ form[r][i].filename = attachment.filename
                    /\ form[r][i].content_type = attachment.content_type
                    /\ form[r][i].data # attachment.image <=>
                          longest > MAX_IMAGE_DIMENSION
                    /\ Max(form[r][i].data.width, form[r][i].data.height)
                          <= MAX_IMAGE_DIMENSION

\* A mention edit with the 2048 x 1024 b.jpg and then the 1024 x 768 a.png:
\* submitted with b.jpg resized first in the body and a.png as it was.
C19_Witness ==
    \E r \in Reqs :
        /\ handler[r] = "handle_edit_message" /\ Positions(r, "submit") # {}
        /\ Len(form[r]) = 2
        /\ form[r][1].filename = "b.jpg" /\ form[r][1].content_type = "image/jpeg"
        /\ form[r][1].data.width = 1024 /\ form[r][1].data.height = 512
        /\ form[r][1].data.reencoded
        /\ form[r][2].filename = "a.png"
        /\ form[r][2].data = attachments[r][2].image

\* C20 as claimed: the first status fetch answered with a non-200 code ends
\* poll_job_status at once, with NotFound for a 404 and FetchFailed carrying
\* the code otherwise; the fetch is not retried, no further status fetch is
\* made, and the request submits at most once.
C20_FetchFailureNotFoundOr ==
    \A r \in Reqs :
        /\ Count(log[r], "submit") <= 1
        /\ "http_error" \in observed[r] =>
              /\ pc[r] = "done"
              /\ poll_count[r] = Count(log[r], "status")
              /\ SubSeq(log[r], Len(log[r]) - 2, Len(log[r])) =
                     <<"status", "session_close", "error">>
              /\ IF text[r][2] = "Failed to get job status: 404"
                 THEN outcome[r] = "NotFound"
                 ELSE /\ outcome[r] = "FetchFailed"
                      /\ text[r][2] = "Failed to get job status: 500"

\* What holds: a non-200 status fetch ends the poll at once with the one
\* failure 'Failed to get job status: <code>', for 404 as for any other
\* code; nothing is retried and the request submits at most once.
C20_FetchFailureEndsPolling ==
    /\ [][\A r \in Reqs : "http_error" \in observed[r] =>
            /\ poll_count'[r] = poll_count[r]
            /\ Count(log'[r], "status") = Count(log[r], "status")
            /\ Count(log'[r], "submit") = Count(log[r], "submit")]_vars
    /\ [](\A r \in Reqs :
            /\ Count(log[r], "submit") <= 1
            /\ "http_error" \in observed[r] =>
                  /\ pc[r] = "done" /\ outcome[r] = "FetchFailed"
                  /\ text[r][2] \in {"Failed to get job status: 404",
                                     "Failed to get job status: 500"}
                  /\ SubSeq(log[r], Len(log[r]) - 2, Len(log[r])) =
                         <<"status", "session_close", "error">>)

\* A poll whose second status fetch was answered 404, reported as a fetch
\* failure carrying the code.
C20_NotFoundWhilePolling ==
    \E r \in Reqs :
        /\ outcome[r] = "FetchFailed" /\ poll_count[r] = 2
        /\ text[r][2] = "Failed to get job status: 404"

\* ------------------------------------------------------------------ C21
\* The calls set_user_language(u, .) made so far, in order.
SetsFor(u) == SelectSeq(sets, LAMBDA s : s[1] = u)

\* C21: the steps of concurrent requests on the language store interleave
\* whole. A get_user_language(u) returns a language that was set for u or
\* DEFAULT_LANGUAGE; what it would return now is the language of the last
\* set for u, DEFAULT_LANGUAGE when there was none; a set for u leaves what
\* it returns for every other user as it was.
C21_StoreIsPerUser ==
    /\ [](/\ lang_args # <<>> /\ lang_args[1] = "get_user_language"
            => lang_result[1] \in
                 {DEFAULT_LANGUAGE} \cup { SetsFor(lang_args[2])[i][2] :
                                            i \in DOMAIN SetsFor(lang_args[2]) })
    /\ [](\A u \in Users :
            get_user_language(u) =
                IF SetsFor(u) = <<>> THEN DEFAULT_LANGUAGE
                ELSE SetsFor(u)[Len(SetsFor(u))][2])
    /\ [][\A u \in Users :
            sets' # sets /\ sets'[Len(sets')][1] # u
                => Get(user_languages', u, DEFAULT_LANGUAGE) = get_user_language(u)]_vars

\* u1 chose zh, then u2 chose en, and a get for u1 returned zh.
C21_Witness ==
    /\ Len(sets) >= 2
    /\ sets[1] = <<"u1", "zh">>
    /\ sets[2] = <<"u2", "en">>
    /\ lang_args = <<"get_user_language", "u1">>
    /\ lang_result = <<"zh">>
    /\ DEFAULT_LANGUAGE = "en"

\* ------------------------------------------------------------------ C22
\* C22: whatever calls of set_user_language were made, every language held
\* in the map and every language a get_user_language returned is one of
\* LANGUAGES.
C22_OnlySupportedLanguages ==
    /\ \A u \in DOMAIN user_languages : user_languages[u] \in LANGUAGES
    /\ \A u \in Users : get_user_language(u) \in LANGUAGES
    /\ lang_args # <<>> /\ lang_args[1] = "get_user_language"
        => lang_result[1] \in LANGUAGES

\* The default itself is always supported, whatever the environment holds;
\* an unsupported language enters only through set_user_language.
C22_DefaultSupported ==
    /\ DEFAULT_LANGUAGE \in LANGUAGES
    /\ \A u \in Users : get_user_language(u) \notin LANGUAGES
        => \E i \in DOMAIN sets : sets[i] = <<u, get_user_language(u)>>

\* set_user_language("u1", "fr") was called and a get for u1 returned fr.
C22_UnsupportedStored ==
    /\ sets = << <<"u1", "fr">> >>
    /\ lang_args = <<"get_user_language", "u1">>
    /\ lang_result = <<"fr">>

\* ------------------------------------------------------------------ C23
\* The call was t(key, lang) with a key of the table that has no template
\* in lang.
C23_MissingLanguage ==
    /\ lang_args # <<>>
    /\ lang_args[1] = "t"
    /\ lang_args[2] \in DOMAIN TRANSLATIONS
    /\ lang_args[3] \notin DOMAIN TRANSLATIONS[lang_args[2]]

\* C23 as stated: for a key of the table and a language the key has no
\* template in, t returns the key's template in DEFAULT_LANGUAGE, whichever
\* of en and zh that is.
C23_FallsBackToDefault ==
    C23_MissingLanguage
        => lang_result[1] = TRANSLATIONS[lang_args[2]][DEFAULT_LANGUAGE]

\* C23 as the code has it: for a key of the table and a language the key
\* has no template in, t returns the key's English template, whatever
\* DEFAULT_LANGUAGE is.
C23_FallsBackToEnglish ==
    C23_MissingLanguage => lang_result[1] = TRANSLATIONS[lang_args[2]].en

\* With zh the configured default, t("enqueued", "fr") returned the English
\* template.
C23_Witness ==
    /\ DEFAULT_LANGUAGE = "zh"
    /\ lang_args = <<"t", "enqueued", "fr">>
    /\ lang_result[1] = "Got it, I have enqueued your request."

\* ------------------------------------------------------------------ C24
\* The templates of the table in a language.
Templates(lang) == { t(key, lang, "")[1] : key \in DOMAIN TRANSLATIONS }

\* Request r has sent a message to its caller; the deferral of a slash
\* command is rendered by the platform, not by the bot.
Messaged(r) ==
    /\ \E i \in DOMAIN log[r] : log[r][i] \in UserMessages
    /\ text[r][1] # "(thinking)"

\* C24: every message sent to a caller is a template of the table in the
\* caller's language, as get_user_language gives it when the message is
\* sent. No step of a request sets a preference, so each caller's language
\* is the configured default throughout.
C24_RenderedInCallersLanguage ==
    \A r \in Reqs :
        Messaged(r) => \A u \in Users : text[r][1] \in Templates(get_user_language(u))

\* What the code does: every message is an English template of the table,
\* whatever the caller's language.
C24_AlwaysEnglish ==
    \A r \in Reqs : Messaged(r) => text[r][1] \in Templates("en")

\* The configured default is zh and the acknowledgment sent is the English
\* one.
C24_EnglishToChineseCaller ==
    \E r \in Reqs, u \in Users :
        /\ get_user_language(u) = "zh"
        /\ Count(log[r], "ack") = 1
        /\ text[r][1] = "Got it, I have enqueued your request."

\* ------------------------------------------------------------------ C25
\* What a request's poll has read, recorded and concluded.
PollState(r) ==
    <<pc[r], processing_start_time[r], poll_count[r], wake[r], observed[r],
      data[r], log[r], text[r], outcome[r]>>

\* C25: a step of one request's poll leaves the other request's poll as it
\* was; a request's outcome and recorded start follow from the statuses it
\* read itself and from its own clock; and a request whose sleep has elapsed
\* can poll, and can complete, whatever state the other is in.
C25_PollsAreIndependent ==
    /\ [][\A r \in DOMAIN pc, q \in DOMAIN pc :
            r # q /\ PollState(r)' # PollState(r) => PollState(q)' = PollState(q)]_vars
    /\ [](\A r \in DOMAIN pc :
            /\ processing_start_time[r] # NoTime => "processing" \in observed[r]
            /\ outcome[r] = "JobTimedOut"
                => /\ processing_start_time[r] # NoTime
                   /\ now - processing_start_time[r] > timeout[r]
            /\ outcome[r] = "JobFailed" => data[r].status = "failed"
            /\ outcome[r] = "FetchFailed" => "http_error" \in observed[r]
            /\ pc[r] = "download" => data[r].status = "completed"
            /\ pc[r] = "poll" /\ now >= wake[r]
                => ENABLED (poll_job_status(r) /\ pc'[r] = "download"))

\* Request 1 completed while request 2, whose job is still queued, polls on.
C25_Witness ==
    /\ pc[1] = "download"
    /\ pc[2] = "poll" /\ observed[2] = {"queued"} /\ poll_count[2] >= 2

\* Request 2 completed after request 1 had timed out.
C25_WitnessOtherOrder ==
    /\ outcome[1] = "JobTimedOut"
    /\ pc[2] = "download" /\ poll_count[2] > poll_count[1]

\* Request 2 completed first, request 1 after it.
C25_WitnessSecondFirst ==
    /\ pc[2] = "download" /\ pc[1] = "download"
    /\ poll_count[2] = 1 /\ poll_count[1] = 3

\* ------------------------------------------------------------------ C26
\* Request r passed the gate and the validation of its attachment, and so
\* reached its handler's `async with aiohttp.ClientSession()`.
Admitted(r) == Count(log[r], "ack") >= 1 /\ outcome[r] # "InvalidAttachment"

\* C26: a request opens one session, and none before it is admitted; each
\* of its backend requests is made after the session was opened and before
\* it is closed; and when the handler has finished, on whichever path, the
\* session it opened is closed.
C26_OneSessionAlwaysClosed ==
    \A r \in Reqs :
        /\ Count(log[r], "session_open") = (IF Admitted(r) THEN 1 ELSE 0)
        /\ Count(log[r], "session_close") <= Count(log[r], "session_open")
        /\ \A i \in DOMAIN log[r] :
              log[r][i] \in BackendCalls =>
                  /\ \E j \in Positions(r, "session_open") : j < i
                  /\ \A j \in Positions(r, "session_close") : i < j
        /\ pc[r] = "done" =>
              Count(log[r], "session_close") = Count(log[r], "session_open")
        /\ pc[r] \notin {"idle", "done"} =>
              Count(log[r], "session_open") = 1 /\ Count(log[r], "session_close") = 0

\* A request that timed out after several status requests, its one session
\* closed.
C26_Witness ==
    \E r \in Reqs :
        /\ outcome[r] = "JobTimedOut"
        /\ Count(log[r], "status") >= 2
        /\ Count(log[r], "session_open") = 1
        /\ Count(log[r], "session_close") = 1

\* ------------------------------------------------------------------ C27
\* C27: the start of processing is recorded at most once: at the first poll
\* that reads a status other than 'queued', 'completed' and 'failed', as the
\* time of that poll; no later poll overwrites or clears it; and the elapsed
\* time that the timeout check uses and that a completion reports is the
\* time since that recording.
C27_StartRecordedOnce ==
    /\ [][\A r \in Reqs :
            /\ processing_start_time[r] # NoTime
                => processing_start_time'[r] = processing_start_time[r]
            /\ processing_start_time[r] = NoTime /\ processing_start_time'[r] # NoTime
                => /\ processing_start_time'[r] = now
                   /\ poll_count'[r] = poll_count[r] + 1
                   /\ data'[r].status \notin {"queued", "completed", "failed"}
                   /\ observed[r] \subseteq {"queued"}
            /\ (/\ poll_count'[r] = poll_count[r] + 1
                /\ data'[r].status \in observed'[r] \ observed[r]
                /\ data'[r].status \notin {"queued", "completed", "failed"})
                => processing_start_time'[r] = now
            /\ elapsed'[r] # elapsed[r]
                => /\ processing_start_time'[r] # NoTime
                   /\ elapsed'[r] = now - processing_start_time'[r]
            /\ outcome[r] # "JobTimedOut" /\ outcome'[r] = "JobTimedOut"
                => elapsed'[r] = now - processing_start_time[r]
                   /\ elapsed'[r] > timeout[r]]_vars
    /\ [](\A r \in Reqs :
            processing_start_time[r] # NoTime /\ pc[r] = "poll"
                => /\ elapsed[r] = wake[r] - POLL_INTERVAL - processing_start_time[r]
                   /\ elapsed[r] <= timeout[r])

\* Queued at the first poll, processing at the second, completed at the
\* third: the start is the time of the second poll and the completion
\* reports the 2 units since then, not the 4 since the first poll.
C27_Witness ==
    \E r \in Reqs :
        /\ pc[r] = "download"
        /\ poll_count[r] = 3
        /\ observed[r] = {"queued", "processing", "completed"}
        /\ processing_start_time[r] = now - 2
        /\ elapsed[r] = 2

\* ------------------------------------------------------------------ C28
\* C28: a poll examines the status it read before it checks the timeout. A
\* poll that reads 'completed' returns the record and one that reads
\* 'failed' raises the job's error, however long the job has been
\* processing; a poll that times out has read a status that is neither.
C28_TerminalBeforeTimeout ==
    [][\A r \in Reqs :
          poll_count'[r] = poll_count[r] + 1 /\ data'[r].status \in observed'[r]
          /\ "http_error" \notin observed'[r]
            => /\ data'[r].status = "completed"
                  => pc'[r] = "download" /\ outcome'[r] = "none"
               /\ data'[r].status = "failed"
                  => pc'[r] = "done" /\ outcome'[r] = "JobFailed"
               /\ outcome'[r] = "JobTimedOut"
                  => data'[r].status \notin {"completed", "failed"}]_vars

\* A poll read 'completed' when the processing time already exceeded the
\* timeout, and returned the record.
C28_Witness ==
    \E r \in Reqs :
        /\ pc[r] = "download"
        /\ data[r].status = "completed"
        /\ elapsed[r] > timeout[r]

\* A poll read 'failed' when the processing time already exceeded the
\* timeout, and raised the job's error.
C28_WitnessFailed ==
    \E r \in Reqs :
        /\ outcome[r] = "JobFailed"
        /\ processing_start_time[r] # NoTime
        /\ wake[r] - processing_start_time[r] > timeout[r]

\* ------------------------------------------------------------------ C29
\* C29: when every fetch returns and every sleep elapses, a call of
\* poll_job_status that has read a status other than 'queued' terminates; a
\* call ends in one of four ways: the completed record returned, JobFailed,
\* JobTimedOut, or the failure of a status fetch; and a call that has read
\* nothing but 'queued' has not terminated.
C29_TerminatesUnlessQueuedForever ==
    /\ \A r \in Reqs :
        (pc[r] = "poll" /\ ~(observed[r] \subseteq {"queued"})) ~> (pc[r] # "poll")
    /\ [][\A r \in Reqs :
            pc[r] = "poll" /\ pc'[r] # "poll"
                => \/ /\ pc'[r] = "download" /\ outcome'[r] = "none"
                      /\ data'[r].status = "completed"
                      /\ observed'[r] \cap {"failed", "http_error"} = {}
                   \/ /\ pc'[r] = "done" /\ outcome'[r] = "JobFailed"
                      /\ data'[r].status = "failed"
                      /\ observed'[r] \cap {"completed", "http_error"} = {}
                   \/ /\ pc'[r] = "done" /\ outcome'[r] = "JobTimedOut"
                      /\ observed'[r] \cap {"completed", "failed", "http_error"} = {}
                   \/ /\ pc'[r] = "done" /\ outcome'[r] = "FetchFailed"
                      /\ "http_error" \in observed'[r]
                      /\ observed'[r] \cap {"completed", "failed"} = {}]_vars
    /\ [](\A r \in Reqs :
            poll_count[r] > 0 /\ observed[r] = {"queued"}
                => pc[r] = "poll" /\ outcome[r] = "none")

\* A call that read 'queued' at every poll up to the last time of the
\* behaviour, and is still polling.
C29_Witness ==
    \E r \in Reqs :
        /\ pc[r] = "poll"
        /\ observed[r] = {"queued"}
        /\ poll_count[r] >= 3
        /\ now = MaxTime

\* A call that read 'queued', then 'processing' until it timed out.
C29_WitnessTerminated ==
    \E r \in Reqs :
        /\ outcome[r] = "JobTimedOut"
        /\ observed[r] = {"queued", "processing"}

\* ------------------------------------------------------------------ C30
\* C30: once the start of processing is recorded the timeout is checked at
\* every later poll that reads a status, 'queued' included: the recorded
\* start stays, the time since it decides, and a poll that reads 'queued'
\* after the budget is spent raises JobTimedOut.
C30_TimeoutStaysArmed ==
    [][\A r \in Reqs :
          (/\ processing_start_time[r] # NoTime
           /\ poll_count'[r] = poll_count[r] + 1
           /\ data'[r].status \in {"queued", "processing"}
           /\ "http_error" \notin observed'[r])
            => /\ processing_start_time'[r] = processing_start_time[r]
               /\ IF now - processing_start_time[r] > timeout[r]
                  THEN pc'[r] = "done" /\ outcome'[r] = "JobTimedOut"
                  ELSE pc'[r] = "poll" /\ outcome'[r] = "none"]_vars

\* The job was processing, went back to 'queued', and the poll that read
\* 'queued' timed out.
C30_Witness ==
    \E r \in Reqs :
        /\ outcome[r] = "JobTimedOut"
        /\ data[r].status = "queued"
        /\ "processing" \in observed[r]

\* ------------------------------------------------------------------ C31
\* C31: for an image of width >= 1 and height >= 1 whose longest side
\* exceeds max_dimension >= 1, both dimensions computed for the resized
\* image are at least 1.
C31_ResizedDimensionsPositive ==
    (/\ resize_args # <<>>
     /\ resize_args[1].width >= 1 /\ resize_args[1].height >= 1
     /\ resize_args[2] >= 1
     /\ Max(resize_args[1].width, resize_args[1].height) > resize_args[2]) =>
        /\ resize_result.width >= 1
        /\ resize_result.height >= 1

\* What holds: no computed dimension is negative, and a dimension whose
\* exact scaled value is at least 2 is computed as at least 1.
C31_ZeroOnlyBelowTwo ==
    (resize_args # <<>>
     /\ Max(resize_args[1].width, resize_args[1].height) > resize_args[2]) =>
        LET longest == Max(resize_args[1].width, resize_args[1].height)
        IN  /\ resize_result.width >= 0 /\ resize_result.height >= 0
            /\ resize_args[1].width * resize_args[2] >= 2 * longest
                  => resize_result.width >= 1
            /\ resize_args[1].height * resize_args[2] >= 2 * longest
                  => resize_result.height >= 1

\* A 1 x 5000 image under the default limit 1024: int(1 * 0.2048) is 0.
C31_NarrowImageZeroWidth ==
    /\ resize_args # <<>>
    /\ resize_args[1].width = 1 /\ resize_args[1].height = 5000
    /\ resize_args[2] = 1024
    /\ resize_result.width = 0 /\ resize_result.height = 1024

\* A 49 x 49 image under the limit 1: 49 * (1 / 49) is below 1 in floating
\* point, and both computed dimensions are 0.
C31_SquareZeroBoth ==
    /\ resize_args # <<>>
    /\ resize_args[1].width = 49 /\ resize_args[1].height = 49
    /\ resize_args[2] = 1
    /\ resize_result.width = 0 /\ resize_result.height = 0

\* ------------------------------------------------------------------ C32
\* The message is a reply, with text, to a message of the bot that has an
\* image attachment.
ReplyTrigger(m) ==
    /\ m.reference = "bot_image" /\ m.content # "empty"
    /\ \E i \in DOMAIN m.ref_attachments : IsImageType(m.ref_attachments[i])

\* The message mentions the bot, has an image attachment and has text
\* besides the mention.
EditTrigger(m) ==
    /\ m.mentioned /\ m.content \notin {"empty", "mention_only"}
    /\ \E i \in DOMAIN m.attachments : IsImageType(m.attachments[i])

\* The message is 'draw <prompt>'.
DrawTrigger(m) == m.content = "draw"

C32_WitnessOwnMessage ==
    \E r \in Reqs :
        /\ message.author_is_bot
        /\ ReplyTrigger(message) /\ EditTrigger(message) /\ DrawTrigger(message)
        /\ outcome[r] = "ignored_own_message"

====
